---- MODULE Spec2Model ----
(***************************************************************************)
(* Model of merge_feed_to_index.py: the text helpers, the post aggregator, *)
(* the override table, the post and image scorers and the merge loop.      *)
(*                                                                         *)
(* Representation.  A Python str is a sequence of one-character strings.   *)
(* An Optional value is a sequence of length at most one: None is <<>>,    *)
(* a present value v is <<v>>.  A float score is an exact rational         *)
(* [n |-> numerator, d |-> denominator] with d > 0, in lowest terms; the   *)
(* values the program rounds to four decimals are integers counting        *)
(* ten-thousandths.                                                        *)
(***************************************************************************)
EXTENDS Integers, Sequences, FiniteSets, TLC

(***************************************************************************)
(* Characters                                                              *)
(***************************************************************************)
\* printable ASCII in code order, without the backquote (code 96), which a
\* TLA+ string cannot hold: ASCII_LO[i] has code i + 31, ASCII_HI[i] code i + 96
ASCII_LO ==
  <<" ","!","\"","#","$","%","&","'","(",")","*","+",",","-",".","/","0","1","2","3","4","5","6","7","8","9",":",";","<","=",">","?","@","A","B","C","D","E","F","G","H","I","J","K","L","M","N","O","P","Q","R","S","T","U","V","W","X","Y","Z","[","\\","]","^","_">>

ASCII_HI ==
  <<"a","b","c","d","e","f","g","h","i","j","k","l","m","n","o","p","q","r","s","t","u","v","w","x","y","z","{","|","}","~">>

TAB == "\t"

CharSet ==
  {ASCII_LO[i] : i \in 1..Len(ASCII_LO)} \cup {ASCII_HI[i] : i \in 1..Len(ASCII_HI)} \cup {TAB}

Ord ==
  [c \in CharSet |->
     IF c = TAB THEN 9
     ELSE IF \E i \in 1..Len(ASCII_LO) : ASCII_LO[i] = c
       THEN 31 + (CHOOSE i \in 1..Len(ASCII_LO) : ASCII_LO[i] = c)
       ELSE 96 + (CHOOSE i \in 1..Len(ASCII_HI) : ASCII_HI[i] = c)]

IsSpace(c) == c = " " \/ c = TAB
IsDigit(c) == Ord[c] >= 48 /\ Ord[c] <= 57
IsUpper(c) == Ord[c] >= 65 /\ Ord[c] <= 90
IsLowerAlpha(c) == Ord[c] >= 97 /\ Ord[c] <= 122
IsSlugChar(c) == IsLowerAlpha(c) \/ IsDigit(c) \/ IsSpace(c)
IsWordChar(c) == IsLowerAlpha(c) \/ IsUpper(c) \/ IsDigit(c) \/ c = "_"
DigitVal(c) == Ord[c] - 48

\* str.lower() on one character
LowerChar(c) == IF IsUpper(c) THEN ASCII_HI[Ord[c] + 32 - 96] ELSE c

(***************************************************************************)
(* Program constants                                                       *)
(***************************************************************************)
ALLOWED_HOSTS == {
  <<"b","p",".","b","l","o","g","s","p","o","t",".","c","o","m">>,
  <<"1",".","b","p",".","b","l","o","g","s","p","o","t",".","c","o","m">>,
  <<"2",".","b","p",".","b","l","o","g","s","p","o","t",".","c","o","m">>,
  <<"3",".","b","p",".","b","l","o","g","s","p","o","t",".","c","o","m">>,
  <<"4",".","b","p",".","b","l","o","g","s","p","o","t",".","c","o","m">>,
  <<"b","l","o","g","g","e","r",".","g","o","o","g","l","e","u","s","e","r","c","o","n","t","e","n","t",".","c","o","m">>,
  <<"l","h","3",".","g","o","o","g","l","e","u","s","e","r","c","o","n","t","e","n","t",".","c","o","m">>,
  <<"l","h","4",".","g","o","o","g","l","e","u","s","e","r","c","o","n","t","e","n","t",".","c","o","m">>,
  <<"l","h","5",".","g","o","o","g","l","e","u","s","e","r","c","o","n","t","e","n","t",".","c","o","m">>,
  <<"l","h","6",".","g","o","o","g","l","e","u","s","e","r","c","o","n","t","e","n","t",".","c","o","m">>,
  <<"l","i","v","e",".","s","t","a","t","i","c","f","l","i","c","k","r",".","c","o","m">>}

IMG_EXTS == {<<"j","p","g">>, <<"j","p","e","g">>, <<"p","n","g">>, <<"w","e","b","p">>, <<"g","i","f">>}

\* SYNONYMS with "hindustan" folded to "hindu", itself a key
SYNONYMS_Chained == <<
  <<<<"b","o","m","b","a","y">>, <<"m","u","m","b","a","i">>>>,
  <<<<"c","a","l","c","u","t","t","a">>, <<"k","o","l","k","a","t","a">>>>,
  <<<<"b","e","n","a","r","a","s">>, <<"v","a","r","a","n","a","s","i">>>>,
  <<<<"b","e","n","a","r","e","s">>, <<"v","a","r","a","n","a","s","i">>>>,
  <<<<"p","o","o","n","a">>, <<"p","u","n","e">>>>,
  <<<<"m","a","d","r","a","s">>, <<"c","h","e","n","n","a","i">>>>,
  <<<<"b","a","r","o","d","a">>, <<"v","a","d","o","d","a","r","a">>>>,
  <<<<"c","a","w","n","p","o","r","e">>, <<"k","a","n","p","u","r">>>>,
  <<<<"t","r","i","v","a","n","d","r","u","m">>, <<"t","h","i","r","u","v","a","n","a","n","t","h","a","p","u","r","a","m">>>>,
  <<<<"t","r","a","v","a","n","c","o","r","e">>, <<"k","e","r","a","l","a">>>>,
  <<<<"m","y","s","o","r","e">>, <<"m","y","s","u","r","u">>>>,
  <<<<"b","a","n","a","r","a","s">>, <<"v","a","r","a","n","a","s","i">>>>,
  <<<<"h","i","n","d","u">>, <<"i","n","d","i","a","n">>>>,
  <<<<"h","i","n","d","u","s","t","a","n">>, <<"h","i","n","d","u">>>>>>

SYNONYMS == <<
  <<<<"b","o","m","b","a","y">>, <<"m","u","m","b","a","i">>>>,
  <<<<"c","a","l","c","u","t","t","a">>, <<"k","o","l","k","a","t","a">>>>,
  <<<<"b","e","n","a","r","a","s">>, <<"v","a","r","a","n","a","s","i">>>>,
  <<<<"b","e","n","a","r","e","s">>, <<"v","a","r","a","n","a","s","i">>>>,
  <<<<"p","o","o","n","a">>, <<"p","u","n","e">>>>,
  <<<<"m","a","d","r","a","s">>, <<"c","h","e","n","n","a","i">>>>,
  <<<<"b","a","r","o","d","a">>, <<"v","a","d","o","d","a","r","a">>>>,
  <<<<"c","a","w","n","p","o","r","e">>, <<"k","a","n","p","u","r">>>>,
  <<<<"t","r","i","v","a","n","d","r","u","m">>, <<"t","h","i","r","u","v","a","n","a","n","t","h","a","p","u","r","a","m">>>>,
  <<<<"t","r","a","v","a","n","c","o","r","e">>, <<"k","e","r","a","l","a">>>>,
  <<<<"m","y","s","o","r","e">>, <<"m","y","s","u","r","u">>>>,
  <<<<"b","a","n","a","r","a","s">>, <<"v","a","r","a","n","a","s","i">>>>,
  <<<<"h","i","n","d","u">>, <<"i","n","d","i","a","n">>>>,
  <<<<"h","i","n","d","u","s","t","a","n">>, <<"i","n","d","i","a">>>>>>

ROMAN_MAP == <<
  <<<<"i">>, 1>>,
  <<<<"i","i">>, 2>>,
  <<<<"i","i","i">>, 3>>,
  <<<<"i","v">>, 4>>,
  <<<<"v">>, 5>>,
  <<<<"v","i">>, 6>>,
  <<<<"v","i","i">>, 7>>,
  <<<<"v","i","i","i">>, 8>>,
  <<<<"i","x">>, 9>>,
  <<<<"x">>, 10>>>>

(***************************************************************************)
(* Optional values and exact arithmetic on scores                          *)
(***************************************************************************)
None == <<>>
Some(v) == <<v>>

RECURSIVE GCD(_, _)
GCD(a, b) == IF b = 0 THEN a ELSE GCD(b, a % b)

Abs(x) == IF x < 0 THEN -x ELSE x

\* the rational n/d (d > 0) in lowest terms
Rat(n, d) == LET g == GCD(Abs(n), d) IN [n |-> n \div g, d |-> d \div g]

\* a literal written in hundredths: Cent(45) is 0.45
Cent(k) == Rat(k, 100)
\* a literal written in ten-thousandths
Bp(k) == Rat(k, 10000)

RatAdd(x, y) == Rat(x.n * y.d + y.n * x.d, x.d * y.d)
RatMul(x, y) == Rat(x.n * y.n, x.d * y.d)
RatLT(x, y) == x.n * y.d < y.n * x.d
RatMax(x, y) == IF RatLT(x, y) THEN y ELSE x
RatMin(x, y) == IF RatLT(y, x) THEN y ELSE x

\* round(x, 4) and "{x:.3f}": x rounded to the nearest multiple of 1/scale
\* (ties to even), as an integer count of 1/scale
RoundTo(x, scale) ==
  LET num == x.n * scale
      q == num \div x.d
      r == num % x.d
  IN  IF 2 * r < x.d THEN q
      ELSE IF 2 * r > x.d THEN q + 1
      ELSE IF q % 2 = 0 THEN q ELSE q + 1

(***************************************************************************)
(* str methods and re.sub patterns used by the helpers                     *)
(***************************************************************************)
Range(s) == {s[i] : i \in 1..Len(s)}

lower(s) == [i \in 1..Len(s) |-> LowerChar(s[i])]

\* str.strip()
strip(s) ==
  LET keep == {i \in 1..Len(s) : ~IsSpace(s[i])}
  IN  IF keep = {} THEN <<>>
      ELSE SubSeq(s, CHOOSE i \in keep : \A j \in keep : i <= j,
                     CHOOSE i \in keep : \A j \in keep : i >= j)

SpaceChars == {c \in CharSet : IsSpace(c)}
NonSlugChars == {c \in CharSet : ~IsSlugChar(c)}

\* re.sub(r"[cls]+", " ", s): every maximal run of characters of cls
\* becomes one space
RECURSIVE ReplaceRunsFrom(_, _, _)
ReplaceRunsFrom(s, cls, i) ==
  IF i > Len(s) THEN <<>>
  ELSE (IF s[i] \in cls
          THEN (IF i > 1 /\ s[i-1] \in cls THEN <<>> ELSE <<" ">>)
          ELSE <<s[i]>>) \o ReplaceRunsFrom(s, cls, i + 1)

ReplaceRuns(s, cls) == ReplaceRunsFrom(s, cls, 1)

\* re.sub(r"[^a-z0-9\s]", " ", s): character by character
NonAlnumToSpace(s) == [i \in 1..Len(s) |-> IF IsSlugChar(s[i]) THEN s[i] ELSE " "]

\* str.split() without arguments
RECURSIVE SplitFrom(_, _, _)
SplitFrom(s, i, cur) ==
  IF i > Len(s) THEN (IF cur = <<>> THEN <<>> ELSE <<cur>>)
  ELSE IF IsSpace(s[i])
         THEN (IF cur = <<>> THEN <<>> ELSE <<cur>>) \o SplitFrom(s, i + 1, <<>>)
         ELSE SplitFrom(s, i + 1, Append(cur, s[i]))

split(s) == SplitFrom(s, 1, <<>>)

\* " ".join(parts)
RECURSIVE join(_)
join(parts) ==
  IF parts = <<>> THEN <<>>
  ELSE IF Len(parts) = 1 THEN parts[1]
  ELSE parts[1] \o <<" ">> \o join(Tail(parts))

\* needle in hay, and the first index where needle occurs (0 when absent)
OccursAt(needle, hay, i) ==
  /\ i >= 1
  /\ i + Len(needle) - 1 <= Len(hay)
  /\ SubSeq(hay, i, i + Len(needle) - 1) = needle

Contains(needle, hay) == \E i \in 1..(Len(hay) + 1) : OccursAt(needle, hay, i)

AllDigits(s, lo, hi) == \A i \in lo..hi : i <= Len(s) /\ IsDigit(s[i])

\* int() of a run of decimal digits
RECURSIVE DigitsValue(_)
DigitsValue(s) ==
  IF s = <<>> THEN 0
  ELSE 10 * DigitsValue(SubSeq(s, 1, Len(s) - 1)) + DigitVal(s[Len(s)])

(***************************************************************************)
(* Text normalizer                                                         *)
(***************************************************************************)
normalize(s) == ReplaceRuns(strip(s), SpaceChars)

SynonymOf(t) ==
  IF \E k \in 1..Len(SYNONYMS) : SYNONYMS[k][1] = t
    THEN SYNONYMS[CHOOSE k \in 1..Len(SYNONYMS) : SYNONYMS[k][1] = t][2]
    ELSE t

apply_synonyms_tokenwise(text) ==
  LET toks == split(NonAlnumToSpace(lower(text)))
  IN  join([k \in 1..Len(toks) |-> SynonymOf(toks[k])])

\* re.sub(r"^\d{4}-\d{2}-\d{2}\s+", "", s)
DropLeadingDate(s) ==
  IF /\ Len(s) >= 11
     /\ AllDigits(s, 1, 4) /\ s[5] = "-"
     /\ AllDigits(s, 6, 7) /\ s[8] = "-"
     /\ AllDigits(s, 9, 10) /\ IsSpace(s[11])
    THEN LET rest == {i \in 11..Len(s) : ~IsSpace(s[i])}
         IN  IF rest = {} THEN <<>>
             ELSE SubSeq(s, CHOOSE i \in rest : \A j \in rest : i <= j, Len(s))
    ELSE s

slugify(text) ==
  LET s1 == lower(normalize(text))
      s2 == DropLeadingDate(s1)
      s3 == ReplaceRuns(s2, NonSlugChars)
      s4 == strip(ReplaceRuns(s3, SpaceChars))
  IN  apply_synonyms_tokenwise(s4)

tokens(s) == SelectSeq(split(NonAlnumToSpace(lower(s))), LAMBDA t : Len(t) > 2)

\* len(A & B) / len(A | B), 0.0 when either set is empty
jaccard_sets(A, B) ==
  IF A = {} \/ B = {} THEN Rat(0, 1)
  ELSE Rat(Cardinality(A \cap B), Cardinality(A \cup B))

jaccard(a, b) == jaccard_sets(Range(tokens(a)), Range(tokens(b)))

\* difflib.SequenceMatcher: length of the common run of a from i and b from j
RECURSIVE CommonRun(_, _, _, _, _, _)
CommonRun(a, b, i, j, ahi, bhi) ==
  IF i > ahi \/ j > bhi \/ a[i] # b[j] THEN 0
  ELSE 1 + CommonRun(a, b, i + 1, j + 1, ahi, bhi)

\* find_longest_match on a[alo..ahi], b[blo..bhi]: the longest block, the
\* earliest in a, then the earliest in b
find_longest_match(a, b, alo, ahi, blo, bhi) ==
  LET run == [i \in alo..ahi, j \in blo..bhi |-> CommonRun(a, b, i, j, ahi, bhi)]
      best == CHOOSE k \in 0..(ahi - alo + 1) :
                /\ k = 0 \/ \E i \in alo..ahi, j \in blo..bhi : run[i, j] = k
                /\ \A i \in alo..ahi, j \in blo..bhi : run[i, j] <= k
  IN  IF best = 0 THEN [i |-> alo, j |-> blo, k |-> 0]
      ELSE LET bi == CHOOSE i \in alo..ahi :
                       /\ \E j \in blo..bhi : run[i, j] = best
                       /\ \A i2 \in alo..(i - 1) : \A j \in blo..bhi : run[i2, j] < best
               bj == CHOOSE j \in blo..bhi :
                       /\ run[bi, j] = best
                       /\ \A j2 \in blo..(j - 1) : run[bi, j2] < best
           IN  [i |-> bi, j |-> bj, k |-> best]

\* get_matching_blocks: total size of the blocks found by splitting around
\* the longest match m
RECURSIVE matching_size(_, _, _, _, _, _)
RECURSIVE matching_around(_, _, _, _, _, _, _)
matching_around(a, b, alo, ahi, blo, bhi, m) ==
  IF m.k = 0 THEN 0
  ELSE m.k + matching_size(a, b, alo, m.i - 1, blo, m.j - 1)
           + matching_size(a, b, m.i + m.k, ahi, m.j + m.k, bhi)

matching_size(a, b, alo, ahi, blo, bhi) ==
  IF alo > ahi \/ blo > bhi THEN 0
  ELSE matching_around(a, b, alo, ahi, blo, bhi,
                       find_longest_match(a, b, alo, ahi, blo, bhi))

\* SequenceMatcher(None, x, y).ratio()
ratio(x, y) ==
  IF Len(x) + Len(y) = 0 THEN Rat(1, 1)
  ELSE Rat(2 * matching_size(x, y, 1, Len(x), 1, Len(y)), Len(x) + Len(y))

fuzzy(a, b) == ratio(lower(normalize(a)), lower(normalize(b)))

\* first position at or after q that holds no whitespace (Len(s) + 1 if none)
SkipSpaces(s, q) ==
  CHOOSE r \in q..(Len(s) + 1) :
    /\ r = Len(s) + 1 \/ ~IsSpace(s[r])
    /\ \A t \in q..(r - 1) : IsSpace(s[t])

\* \b at the gap before position q, given that s[q-1] is a word character
WordEndsBefore(s, q) == q > Len(s) \/ ~IsWordChar(s[q])

\* the pattern "part" between word boundaries, blanks, an optional "-" or ":", blanks, matched at p: the position where the numeral
\* must start, 0 when the prefix does not match at p
PartPrefix(s, p) ==
  IF /\ OccursAt(<<"p","a","r","t">>, s, p)
     /\ (p = 1 \/ ~IsWordChar(s[p-1]))
     /\ WordEndsBefore(s, p + 4)
    THEN LET q1 == SkipSpaces(s, p + 4)
             q2 == IF q1 <= Len(s) /\ s[q1] \in {"-", ":"} THEN q1 + 1 ELSE q1
         IN  SkipSpaces(s, q2)
    ELSE 0

\* (\d{1,2})\b at q: the digits matched, <<>> when there is no match
ArabicAt(s, q) ==
  IF q = 0 \/ q > Len(s) \/ ~IsDigit(s[q]) THEN <<>>
  ELSE IF q + 1 <= Len(s) /\ IsDigit(s[q+1])
         THEN (IF WordEndsBefore(s, q + 2) THEN SubSeq(s, q, q + 1) ELSE <<>>)
         ELSE (IF WordEndsBefore(s, q + 1) THEN SubSeq(s, q, q) ELSE <<>>)

\* (i|ii|iii|iv|v|vi|vii|viii|ix|x)\b at q: the index in ROMAN_MAP, 0 when
\* there is no match
RomanAt(s, q) ==
  LET ok == {k \in 1..Len(ROMAN_MAP) :
               /\ q >= 1
               /\ OccursAt(ROMAN_MAP[k][1], s, q)
               /\ WordEndsBefore(s, q + Len(ROMAN_MAP[k][1]))}
  IN  IF ok = {} THEN 0 ELSE CHOOSE k \in ok : \A k2 \in ok : k <= k2

\* the least element of a non-empty set of positions
Leftmost(S) == CHOOSE x \in S : \A y \in S : x <= y

\* re.search picks the leftmost position where the pattern matches; at one
\* position the digits alternative is tried before the roman one.  arabic
\* and roman are the positions where each alternative matches
part_number_at(s, arabic, roman) ==
  IF arabic # {}
    THEN Some(DigitsValue(ArabicAt(s, PartPrefix(s, Leftmost(arabic)))))
  ELSE IF roman # {}
    THEN Some(ROMAN_MAP[RomanAt(s, PartPrefix(s, Leftmost(roman)))][2])
  ELSE None

\* the two searches over the lower-cased text s
part_number_in(s) ==
  part_number_at(s, {p \in 1..Len(s) : ArabicAt(s, PartPrefix(s, p)) # <<>>},
                    {p \in 1..Len(s) : RomanAt(s, PartPrefix(s, p)) # 0})

extract_part_number(text) == part_number_in(lower(text))

\* re.search(r"/(\d{4})/(\d{2})/", u): the pair (year, month)
extract_year_month_from_post_url(u) ==
  LET hits == {i \in 1..Len(u) :
                 /\ i + 8 <= Len(u)
                 /\ u[i] = "/" /\ AllDigits(u, i + 1, i + 4)
                 /\ u[i+5] = "/" /\ AllDigits(u, i + 6, i + 7)
                 /\ u[i+8] = "/"}
  IN  IF hits = {} THEN [y |-> None, m |-> None]
      ELSE LET i == CHOOSE x \in hits : \A z \in hits : x <= z
           IN  [y |-> Some(SubSeq(u, i + 1, i + 4)), m |-> Some(SubSeq(u, i + 6, i + 7))]

\* d is Optional[str]
year_month_from_index_date(d) ==
  IF d = None \/ d[1] = <<>> THEN [y |-> None, m |-> None]
  ELSE LET s == d[1]
       IN  IF /\ Len(s) >= 10
              /\ AllDigits(s, 1, 4) /\ s[5] = "-"
              /\ AllDigits(s, 6, 7) /\ s[8] = "-"
              /\ AllDigits(s, 9, 10)
             THEN [y |-> Some(SubSeq(s, 1, 4)), m |-> Some(SubSeq(s, 6, 7))]
             ELSE [y |-> None, m |-> None]

\* year is Optional[str]
decade_tag(year) ==
  IF year = None \/ year[1] = <<>> THEN None
  ELSE IF Len(year[1]) = 4 /\ AllDigits(year[1], 1, 4)
         THEN Some(SubSeq(year[1], 1, 3) \o <<"0", "s">>)
         ELSE None

\* the extension e of IMG_EXTS with s ending in "." e (lower-cased), <<>> if none
ExtensionAtEnd(s) ==
  LET l == lower(s)
      ok == {e \in IMG_EXTS : Len(l) >= Len(e) + 1
                               /\ SubSeq(l, Len(l) - Len(e), Len(l)) = <<".">> \o e}
  IN  IF ok = {} THEN <<>> ELSE CHOOSE e \in ok : TRUE

\* (\d{1,3})\.(jpg|jpeg|png|webp|gif)$ on the lower-cased name t that ends
\* with the extension e (<<>>: no extension): the number before the dot
trailing_number(t, e) ==
  LET dot == Len(t) - Len(e)
      ks == {k \in 1..3 : dot - k >= 1 /\ AllDigits(t, dot - k, dot - 1)}
  IN  IF e = <<>> \/ ks = {} THEN None
      ELSE Some(DigitsValue(SubSeq(t, dot - (CHOOSE x \in ks : \A z \in ks : x >= z), dot - 1)))

\* s is Optional[str]
number_from_orig_filename(s) ==
  IF s = None THEN None
  ELSE trailing_number(lower(s[1]), ExtensionAtEnd(lower(s[1])))

\* str.split(sep) for a one-character separator
RECURSIVE SplitOn(_, _, _, _)
SplitOn(s, sep, i, cur) ==
  IF i > Len(s) THEN <<cur>>
  ELSE IF s[i] = sep THEN <<cur>> \o SplitOn(s, sep, i + 1, <<>>)
  ELSE SplitOn(s, sep, i + 1, Append(cur, s[i]))

\* pathlib.Path(p).name: the last component, ignoring empty and "." ones
PathName(p) ==
  LET parts == SelectSeq(SplitOn(p, "/", 1, <<>>), LAMBDA c : c # <<>> /\ c # <<".">>)
  IN  IF parts = <<>> THEN <<>> ELSE parts[Len(parts)]

\* tokens of base without its image extension e (<<>>: none to remove)
stem_tokens(base, e) ==
  tokens(IF e = <<>> THEN base ELSE SubSeq(base, 1, Len(base) - Len(e) - 1))

\* the re.sub on the name, then tokens
name_tokens(base) == stem_tokens(base, ExtensionAtEnd(base))

filename_tokens_from_path(p) == name_tokens(PathName(p))

\* index of the first character of s at or after i that lies in cs
\* (Len(s) + 1 when there is none)
FindFirst(s, i, cs) ==
  CHOOSE r \in i..(Len(s) + 1) :
    /\ r = Len(s) + 1 \/ s[r] \in cs
    /\ \A t \in i..(r - 1) : s[t] \notin cs

\* urlparse, last step: full is the url without scheme, netloc, query and
\* fragment; the params after ";" in its last segment are split off
url_path(scheme, netloc, full) ==
  LET slashes == {i \in 1..Len(full) : full[i] = "/"}
      lastSlash == IF slashes = {} THEN 0 ELSE CHOOSE i \in slashes : \A j \in slashes : i >= j
  IN  [scheme |-> scheme, netloc |-> netloc,
       path |-> SubSeq(full, 1, FindFirst(full, lastSlash + 1, {";"}) - 1),
       ok |-> ("[" \in Range(netloc)) = ("]" \in Range(netloc))]

\* urlparse, third step: the fragment and the query are split off tail
url_after_netloc(scheme, netloc, tail) ==
  url_path(scheme, netloc, SubSeq(tail, 1, FindFirst(tail, 1, {"?", "#"}) - 1))

\* urlparse, second step: rest is the url after "scheme:"; a netloc follows "//"
url_after_scheme(scheme, rest) ==
  IF Len(rest) >= 2 /\ rest[1] = "/" /\ rest[2] = "/"
    THEN url_after_netloc(scheme,
                          SubSeq(rest, 3, FindFirst(rest, 3, {"/", "?", "#"}) - 1),
                          SubSeq(rest, FindFirst(rest, 3, {"/", "?", "#"}), Len(rest)))
    ELSE url_after_netloc(scheme, <<>>, rest)

\* the text before colon is a scheme: a letter, then letters, digits, "+", "-", "."
has_scheme(u, colon) ==
  /\ colon > 1 /\ colon <= Len(u)
  /\ IsLowerAlpha(LowerChar(u[1]))
  /\ \A i \in 1..(colon - 1) :
       \/ IsLowerAlpha(LowerChar(u[i])) \/ IsDigit(u[i])
       \/ u[i] \in {"+", "-", "."}

\* urlparse(u) with colon the position of the first ":" of u
url_split(u, colon) ==
  IF has_scheme(u, colon)
    THEN url_after_scheme(lower(SubSeq(u, 1, colon - 1)), SubSeq(u, colon + 1, Len(u)))
    ELSE url_after_scheme(<<>>, u)

\* urllib.parse.urlparse(u): scheme, netloc and path (params, query and
\* fragment are split off); ok is FALSE where urlparse raises ValueError
urlparse(u) == url_split(u, FindFirst(u, 1, {":"}))

\* IMG_EXT_RE.search(u): r'\.(jpg|jpeg|png|webp|gif)(?:\?|$)', ignoring case
IMG_EXT_RE_search(u) ==
  \E i \in 1..Len(u) : \E e \in IMG_EXTS :
    /\ u[i] = "."
    /\ i + Len(e) <= Len(u)
    /\ lower(SubSeq(u, i + 1, i + Len(e))) = e
    /\ (i + Len(e) = Len(u) \/ u[i + Len(e) + 1] = "?")

host_ok(u) ==
  LET p == urlparse(u)
  IN  /\ p.ok
      /\ (p.netloc \in ALLOWED_HOSTS \/ IMG_EXT_RE_search(u))

\* urllib.parse.uses_netloc: the schemes urlunparse writes "//" for even
\* without a netloc
USES_NETLOC ==
  {<<"f","t","p">>,
   <<"h","t","t","p">>,
   <<"g","o","p","h","e","r">>,
   <<"n","n","t","p">>,
   <<"t","e","l","n","e","t">>,
   <<"i","m","a","p">>,
   <<"w","a","i","s">>,
   <<"f","i","l","e">>,
   <<"m","m","s">>,
   <<"h","t","t","p","s">>,
   <<"s","h","t","t","p">>,
   <<"s","n","e","w","s">>,
   <<"p","r","o","s","p","e","r","o">>,
   <<"r","t","s","p">>,
   <<"r","t","s","p","s">>,
   <<"r","t","s","p","u">>,
   <<"r","s","y","n","c">>,
   <<"s","v","n">>,
   <<"s","v","n","+","s","s","h">>,
   <<"s","f","t","p">>,
   <<"n","f","s">>,
   <<"g","i","t">>,
   <<"g","i","t","+","s","s","h">>,
   <<"w","s">>,
   <<"w","s","s">>}

\* urlunparse((scheme, netloc, path, "", "", ""))
urlunparse(scheme, netloc, path) ==
  LET slashed == IF path # <<>> /\ path[1] # "/" THEN <<"/">> \o path ELSE path
      doubled == Len(path) >= 2 /\ path[1] = "/" /\ path[2] = "/"
      url == IF netloc # <<>> \/ (scheme \in USES_NETLOC /\ ~doubled)
               THEN <<"/", "/">> \o netloc \o slashed
               ELSE path
  IN  IF scheme # <<>> THEN scheme \o <<":">> \o url ELSE url

\* normalize_page_url of the scraper: the url without params, query and
\* fragment (for a url without leading whitespace that urlparse parses)
normalize_page_url(u) == urlunparse(urlparse(u).scheme, urlparse(u).netloc, urlparse(u).path)

prefer_original(u) ==
  RatAdd(IF Contains(<<"/","s","0","/">>, u) THEN Cent(20) ELSE Cent(0),
         IF Contains(<<"i","m","g","m","a","x","=","0">>, u) THEN Cent(20) ELSE Cent(0))

\* int(s) as the override loader uses it: Some(value), or None where int()
\* raises ValueError
int_of(s) ==
  LET t == strip(s)
      signed == t # <<>> /\ t[1] \in {"+", "-"}
      digs == IF signed THEN Tail(t) ELSE t
  IN  IF digs # <<>> /\ AllDigits(digs, 1, Len(digs))
        THEN Some(IF signed /\ t[1] = "-" THEN 0 - DigitsValue(digs) ELSE DigitsValue(digs))
        ELSE None

\* "{x:.3f}": x with three decimals, as text
Format3(x) ==
  LET k == RoundTo(x, 1000)
      a == Abs(k)
      digit(v) == ASCII_LO[v + 17]
      RECURSIVE whole(_)
      whole(v) == IF v < 10 THEN <<digit(v)>> ELSE whole(v \div 10) \o <<digit(v % 10)>>
  IN  (IF k < 0 THEN <<"-">> ELSE <<>>) \o whole(a \div 1000)
        \o <<".", digit((a \div 100) % 10), digit((a \div 10) % 10), digit(a % 10)>>

\* Python's < on str: lexicographic by code point
RECURSIVE StrLess(_, _)
StrLess(a, b) ==
  IF b = <<>> THEN FALSE
  ELSE IF a = <<>> THEN TRUE
  ELSE IF a[1] # b[1] THEN Ord[a[1]] < Ord[b[1]]
  ELSE StrLess(Tail(a), Tail(b))

(***************************************************************************)
(* Override table                                                          *)
(***************************************************************************)
\* one csv row -> the key and the entry stored under it
override_key(row) == <<normalize(row.folder), normalize(row.title)>>

override_entry(row) ==
  [post_url |-> normalize(row.post_url),
   image_pos |-> IF row.image_pos # <<>> THEN int_of(row.image_pos) ELSE None]

\* the dict built by reading rows k.. into ov; a later row replaces an
\* earlier one with the same key
RECURSIVE load_overrides(_, _, _)
load_overrides(rows, k, ov) ==
  IF k > Len(rows) THEN ov
  ELSE LET key == override_key(rows[k])
       IN  load_overrides(rows, k + 1,
             [x \in DOMAIN ov \cup {key} |->
                IF x = key THEN override_entry(rows[k]) ELSE ov[x]])

(***************************************************************************)
(* Post aggregator                                                         *)
(***************************************************************************)
\* the value defaultdict creates for a new post url
empty_post(pu) ==
  [url |-> pu, post_title |-> <<>>, post_date |-> <<>>, labels |-> <<>>,
   source |-> <<>>, description |-> <<>>, images |-> <<>>]

\* position of pu among the keys of post_map, 0 when absent
post_map_find(pm, pu) ==
  IF \E k \in 1..Len(pm) : pm[k].url = pu
    THEN CHOOSE k \in 1..Len(pm) : pm[k].url = pu
    ELSE 0

\* update_post with a later non-empty value replacing the one already taken
update_post_LastWins(post, row) ==
  [post EXCEPT
     !.post_title = IF normalize(row.post_title) # <<>> THEN normalize(row.post_title) ELSE @,
     !.post_date = IF normalize(row.post_date) # <<>> THEN normalize(row.post_date) ELSE @,
     !.labels = IF row.labels # <<>> THEN row.labels ELSE @,
     !.source = IF normalize(row.source) # <<>> THEN normalize(row.source) ELSE @,
     !.description = IF normalize(row.description) # <<>> THEN normalize(row.description) ELSE @,
     !.images = Append(@, [url |-> row.image_url, alt |-> row.alt,
                           caption |-> row.caption, pos |-> row.position_in_post])]

\* the first-non-empty-wins updates of one row on its post, and the append
\* of the row's image
update_post(post, row) ==
  [post EXCEPT
     !.post_title = IF post.post_title = <<>> THEN normalize(row.post_title) ELSE @,
     !.post_date = IF post.post_date = <<>> THEN normalize(row.post_date) ELSE @,
     !.labels = IF post.labels = <<>> THEN row.labels ELSE @,
     !.source = IF post.source = <<>> THEN normalize(row.source) ELSE @,
     !.description = IF post.description = <<>> THEN normalize(row.description) ELSE @,
     !.images = Append(@, [url |-> row.image_url, alt |-> row.alt,
                           caption |-> row.caption, pos |-> row.position_in_post])]

\* post_map[pu], at position at of the keys (0: a new key, added at the end)
store_row(pm, row, pu, at) ==
  IF at = 0 THEN Append(pm, update_post(empty_post(pu), row))
  ELSE [pm EXCEPT ![at] = update_post(pm[at], row)]

\* the row goes to the post of its normalized url pu
group_under(pm, row, pu) == store_row(pm, row, pu, post_map_find(pm, pu))

\* add_row grouping under the url without query and fragment
add_row_StripsQuery(pm, row) == group_under(pm, row, normalize_page_url(normalize(row.post_url)))

\* the body of the grouping loop for one surviving row
add_row(pm, row) == group_under(pm, row, normalize(row.post_url))

\* row_survives with a url that urlparse rejects judged on its extension
row_survives_IgnoresParseError(row) ==
  /\ row.image_url # <<>>
  /\ (urlparse(row.image_url).netloc \in ALLOWED_HOSTS \/ IMG_EXT_RE_search(row.image_url))

\* the filter at the head of the grouping loop
row_survives(row) == row.image_url # <<>> /\ host_ok(row.image_url)

\* the sort key (pos if pos else 999999, url), compared as Python compares tuples
NO_POS == 999999

\* image_key_less on (pos, url): an image without position sorts first
image_key_less_ZeroFirst(x, y) ==
  x.pos < y.pos \/ (x.pos = y.pos /\ StrLess(x.url, y.url))

image_key_less(x, y) ==
  LET kx == IF x.pos # 0 THEN x.pos ELSE NO_POS
      ky == IF y.pos # 0 THEN y.pos ELSE NO_POS
  IN  kx < ky \/ (kx = ky /\ StrLess(x.url, y.url))

\* list.sort is stable: an element goes after every element whose key is
\* not greater than its own
RECURSIVE sort_images(_)
sort_images(imgs) ==
  IF imgs = <<>> THEN <<>>
  ELSE LET rest == sort_images(SubSeq(imgs, 1, Len(imgs) - 1))
           x == imgs[Len(imgs)]
           before == {i \in 1..Len(rest) : ~image_key_less(x, rest[i])}
           cut == IF before = {} THEN 0 ELSE CHOOSE i \in before : \A j \in before : i >= j
       IN  SubSeq(rest, 1, cut) \o <<x>> \o SubSeq(rest, cut + 1, Len(rest))

\* one entry of posts, compiled from one entry of post_map
compile_post(p) ==
  LET ym == extract_year_month_from_post_url(p.url)
  IN  [post_url |-> p.url,
       post_title |-> p.post_title,
       post_slug |-> slugify(p.post_title),
       post_date |-> p.post_date,
       post_y |-> ym.y, post_m |-> ym.m,
       post_decade |-> IF ym.y # None THEN decade_tag(ym.y) ELSE None,
       labels |-> [k \in 1..Len(p.labels) |-> apply_synonyms_tokenwise(p.labels[k])],
       source |-> p.source,
       description |-> p.description,
       images |-> p.images,
       post_part |-> extract_part_number(p.post_title)]

(***************************************************************************)
(* Scoring                                                                 *)
(***************************************************************************)
\* Python truthiness of an Optional[str] and of an Optional[int]
TruthyStr(o) == o # None /\ o[1] # <<>>
TruthyInt(o) == o # None /\ o[1] # 0

\* date boost; ym is the (year, month) of the index date
date_boost(ym, cand) ==
  IF TruthyStr(ym.y) /\ TruthyStr(cand.post_y) /\ ym.y = cand.post_y
    THEN (IF TruthyStr(ym.m) /\ TruthyStr(cand.post_m) /\ ym.m = cand.post_m
            THEN Cent(15) ELSE Cent(10))
    ELSE Cent(0)

\* "decade_tag(iy) if iy else None"
index_decade(iy) == IF TruthyStr(iy) THEN decade_tag(iy) ELSE None

\* decade overlap
decade_boost(dec, cand) ==
  IF /\ TruthyStr(dec)
     /\ \/ Contains(dec[1], lower(join(cand.labels)))
        \/ (TruthyStr(cand.post_decade) /\ cand.post_decade = dec)
    THEN Cent(6) ELSE Cent(0)

\* label overlap; idx_tags is set(idx_tags), it is empty iff the list is
label_overlap(idx_tags, lab) ==
  IF idx_tags # {} /\ lab # <<>> /\ Cardinality(idx_tags \cap Range(lab)) # 0
    THEN RatMin(Cent(10 + 3 * Cardinality(idx_tags \cap Range(lab))), Cent(20))
    ELSE Cent(0)

\* part matching bonus
part_bonus(idx_part, post_part) ==
  IF TruthyInt(idx_part) /\ TruthyInt(post_part) /\ idx_part = post_part
    THEN Cent(10) ELSE Cent(0)

\* the blend and the debug dictionary
blend(jac, fuz, dy, dboost, lob, pbonus) ==
  [score |-> RatAdd(RatAdd(RatAdd(RatMul(Cent(45), jac), RatMul(Cent(35), fuz)),
                           RatAdd(dy, dboost)),
                    RatAdd(lob, pbonus)),
   dbg |-> [jac |-> jac, fuz |-> fuz, dy |-> dy, dboost |-> dboost,
            lob |-> lob, pbonus |-> pbonus]]

\* post_score once the two slugs of the index row are known
score_slugs(idx_folder, idx_title, index_row, cand) ==
  blend(RatMax(jaccard(idx_folder, cand.post_title), jaccard(idx_title, cand.post_title)),
        RatMax(fuzzy(idx_folder, cand.post_title), fuzzy(idx_title, cand.post_title)),
        date_boost(year_month_from_index_date(index_row.date), cand),
        decade_boost(index_decade(year_month_from_index_date(index_row.date).y), cand),
        label_overlap({apply_synonyms_tokenwise(index_row.tags[k]) :
                         k \in 1..Len(index_row.tags)},
                      cand.labels),
        part_bonus(extract_part_number(index_row.folder \o <<" ">> \o index_row.title),
                   cand.post_part))

post_score(index_row, cand) ==
  score_slugs(slugify(index_row.folder), slugify(index_row.title), index_row, cand)

\* position_score without the decay: 0.46 at any distance
position_score_NoDecay(pos, guessed_pos) ==
  IF pos # 0 /\ TruthyInt(guessed_pos)
    THEN (IF pos = guessed_pos[1] THEN Cent(58) ELSE Cent(46))
    ELSE Cent(0)

\* position match
position_score(pos, guessed_pos) ==
  IF pos # 0 /\ TruthyInt(guessed_pos)
    THEN (IF pos = guessed_pos[1] THEN Cent(58)
          ELSE RatMax(Cent(0), Cent(46 - 9 * Abs(pos - guessed_pos[1]))))
    ELSE Cent(0)

\* filename token overlap of the two token sets
overlap_score(idx_file_tokens, img_file_tokens) ==
  IF /\ idx_file_tokens # {} /\ img_file_tokens # {}
     /\ Cardinality(idx_file_tokens \cap img_file_tokens) # 0
    THEN RatMin(Cent(36), Cent(18 + 10 * Cardinality(idx_file_tokens \cap img_file_tokens)))
    ELSE Cent(0)

image_score(index_row, image, guessed_pos) ==
  RatAdd(RatAdd(position_score(image.pos, guessed_pos),
                overlap_score(Range(filename_tokens_from_path(index_row.file)),
                              Range(filename_tokens_from_path(urlparse(image.url).path)))),
         prefer_original(image.url))

\* image_score of every image of a post, in the post's order
score_images(item, images, guessed_pos) ==
  [k \in 1..Len(images) |-> image_score(item, images[k], guessed_pos)]

\* select_best with ">=" for ">": among equal scores the last one wins
RECURSIVE select_best_LastWins(_, _, _, _)
RECURSIVE select_best(_, _, _, _)
select_best_LastWins(scores, k, at, best) ==
  IF k > Len(scores) THEN [at |-> at, score |-> best]
  ELSE IF ~RatLT(scores[k], best) THEN select_best_LastWins(scores, k + 1, k, scores[k])
  ELSE select_best_LastWins(scores, k + 1, at, best)

\* the selection loops: "if sc > best: best = this", run over scores k..;
\* at is 0 while nothing has been selected
select_best(scores, k, at, best) ==
  IF k > Len(scores) THEN [at |-> at, score |-> best]
  ELSE IF RatLT(best, scores[k]) THEN select_best(scores, k + 1, k, scores[k])
  ELSE select_best(scores, k + 1, at, best)

(***************************************************************************)
(* Merge loop body                                                         *)
(***************************************************************************)
\* dict(item) followed by out.update(fields)
merged_record(item, image_url, post_url, post_title, post_labels, post_source, post_description, match_confidence) ==
  [image_url |-> image_url, post_url |-> post_url, post_title |-> post_title,
   post_labels |-> post_labels, post_source |-> post_source,
   post_description |-> post_description,
   match_confidence |-> match_confidence] @@ item

\* a row of review_rows; a key the code leaves out is None
review_row(item, reason, post_score_text, img_score_text, title_suggested, url_suggested) ==
  [id |-> item.id, folder |-> item.folder, title |-> item.title, date |-> item.date,
   reason |-> reason, post_score |-> post_score_text, img_score |-> img_score_text,
   post_title_suggested |-> title_suggested, post_url_suggested |-> url_suggested]

\* what one iteration does: the record it appends to merged, the row it
\* appends to review_rows (None: no row), what it adds to the two counters,
\* and the values its local variables end with
iteration(out, review, matched_inc, unmatched_inc, outcome, branch, p_scores, bp, i_scores, bi) ==
  [out |-> out, review |-> review, matched |-> matched_inc, unmatched |-> unmatched_inc,
   outcome |-> outcome, branch |-> branch,
   p_scores |-> p_scores, best_post |-> bp.at, best_p_score |-> bp.score,
   i_scores |-> i_scores, best_img |-> bi.at, best_i_score |-> bi.score]

Unset == [at |-> 0, score |-> Rat(-1, 1)]

\* next((p for p in posts if p["post_url"] == forced_url), None): position
\* of the first such post, 0 for None
find_post(ps, url) ==
  IF \E k \in 1..Len(ps) : ps[k].post_url = url
    THEN CHOOSE k \in 1..Len(ps) :
           ps[k].post_url = url /\ \A j \in 1..(k - 1) : ps[j].post_url # url
    ELSE 0

\* override_not_found giving the record the confidence of "post found, no image"
override_not_found_Confidence08(item, forced_url) ==
  iteration(merged_record(item, None, Some(forced_url), None, None, None, None, 8000),
            Some(review_row(item, "override_post_not_found", None, None,
                            None, Some(forced_url))),
            0, 1, "override_post_not_found", "override", <<>>, Unset, <<>>, Unset)

\* the override refers to an unknown post
override_not_found(item, forced_url) ==
  iteration(merged_record(item, None, Some(forced_url), None, None, None, None, 0),
            Some(review_row(item, "override_post_not_found", None, None,
                            None, Some(forced_url))),
            0, 1, "override_post_not_found", "override", <<>>, Unset, <<>>, Unset)

\* override_result with the confidence of the scored post in place of 1.0
override_result_HalfConfidence(item, cand, at, i_scores, bi) ==
  iteration(merged_record(item,
              IF bi.at # 0 THEN Some(cand.images[bi.at].url) ELSE None,
              Some(cand.post_url), Some(cand.post_title), Some(cand.labels),
              Some(cand.source), Some(cand.description),
              IF bi.at # 0 THEN RoundTo(bi.score, 10000) ELSE 8000),
            IF bi.at # 0 THEN None
            ELSE Some(review_row(item, "override_post_found_but_no_image",
                                 None, None, None, Some(cand.post_url))),
            IF bi.at # 0 THEN 1 ELSE 0, 0,
            IF bi.at # 0 THEN "override_forced" ELSE "override_post_found_but_no_image",
            "override", <<>>, [at |-> at, score |-> Rat(-1, 1)], i_scores, bi)

\* lines 347-368: what the override branch emits once the image is chosen
override_result(item, cand, at, i_scores, bi) ==
  iteration(merged_record(item,
              IF bi.at # 0 THEN Some(cand.images[bi.at].url) ELSE None,
              Some(cand.post_url), Some(cand.post_title), Some(cand.labels),
              Some(cand.source), Some(cand.description),
              IF bi.at # 0 THEN 10000 ELSE 8000),
            IF bi.at # 0 THEN None
            ELSE Some(review_row(item, "override_post_found_but_no_image",
                                 None, None, None, Some(cand.post_url))),
            IF bi.at # 0 THEN 1 ELSE 0, 0,
            IF bi.at # 0 THEN "override_forced" ELSE "override_post_found_but_no_image",
            "override", <<>>, [at |-> at, score |-> Rat(-1, 1)], i_scores, bi)

\* override_image with the selection started at 0.0 in place of -1.0
override_image_FromZero(item, cand, at, i_scores) ==
  override_result(item, cand, at, i_scores, select_best(i_scores, 1, 0, Rat(0, 1)))

\* lines 339-345: the best image of the forced post
override_image(item, cand, at, i_scores) ==
  override_result(item, cand, at, i_scores, select_best(i_scores, 1, 0, Rat(-1, 1)))

\* the override's post is in the table: choose the image in that post
override_found(item, cand, at, forced_pos) ==
  override_image(item, cand, at,
                 score_images(item, cand.images,
                              IF TruthyInt(forced_pos) THEN forced_pos
                              ELSE number_from_orig_filename(item.orig_filename)))

\* the override branch, taken with the entry ov stored under the item's key
merge_override(item, ps, ov) ==
  LET at == find_post(ps, ov.post_url)
  IN  IF at = 0 THEN override_not_found(item, ov.post_url)
      ELSE override_found(item, ps[at], at, ov.image_pos)

\* post_below with the comparison turned round
post_below_Reversed(bp, pt) == bp.at = 0 \/ RatLT(pt, bp.score)

\* "not best_post or best_p_score < args.post_threshold"
post_below(bp, pt) == bp.at = 0 \/ RatLT(bp.score, pt)

\* image_below with "<=" for "<"
image_below_RejectsEqual(bi, it) == bi.at = 0 \/ ~RatLT(it, bi.score)

\* "not best_img or best_i_score < args.img_threshold"
image_below(bi, it) == bi.at = 0 \/ RatLT(bi.score, it)

\* post_rejected without "unmatched += 1"
post_rejected_NotCounted(item, ps, p_scores, bp) ==
  iteration(merged_record(item, None, None, None, None, None, None,
                          RoundTo(bp.score, 10000)),
            Some(review_row(item, "post_low_confidence",
                            Some(Format3(bp.score)), None,
                            Some(IF bp.at # 0 THEN ps[bp.at].post_title ELSE <<>>),
                            Some(IF bp.at # 0 THEN ps[bp.at].post_url ELSE <<>>))),
            0, 0, "post_low_confidence", "scored", p_scores, bp, <<>>, Unset)

\* below the post threshold: review
post_rejected(item, ps, p_scores, bp) ==
  iteration(merged_record(item, None, None, None, None, None, None,
                          RoundTo(bp.score, 10000)),
            Some(review_row(item, "post_low_confidence",
                            Some(Format3(bp.score)), None,
                            Some(IF bp.at # 0 THEN ps[bp.at].post_title ELSE <<>>),
                            Some(IF bp.at # 0 THEN ps[bp.at].post_url ELSE <<>>))),
            0, 1, "post_low_confidence", "scored", p_scores, bp, <<>>, Unset)

\* image_rejected without the review row
image_rejected_NoReviewRow(item, best_post, p_scores, bp, i_scores, bi) ==
  iteration(merged_record(item, None,
                          Some(best_post.post_url), Some(best_post.post_title),
                          Some(best_post.labels), Some(best_post.source),
                          Some(best_post.description), RoundTo(bp.score, 10000)),
            None, 0, 1, "image_low_confidence", "scored", p_scores, bp, i_scores, bi)

\* image_rejected dropping the accepted post from the merged record
image_rejected_DropsPost(item, best_post, p_scores, bp, i_scores, bi) ==
  iteration(merged_record(item, None, None, None, None, None, None,
                          RoundTo(bp.score, 10000)),
            Some(review_row(item, "image_low_confidence",
                            Some(Format3(bp.score)), Some(Format3(bi.score)),
                            Some(best_post.post_title), Some(best_post.post_url))),
            0, 1, "image_low_confidence", "scored", p_scores, bp, i_scores, bi)

\* post accepted, image below the image threshold: review
image_rejected(item, best_post, p_scores, bp, i_scores, bi) ==
  iteration(merged_record(item, None,
                          Some(best_post.post_url), Some(best_post.post_title),
                          Some(best_post.labels), Some(best_post.source),
                          Some(best_post.description), RoundTo(bp.score, 10000)),
            Some(review_row(item, "image_low_confidence",
                            Some(Format3(bp.score)), Some(Format3(bi.score)),
                            Some(best_post.post_title), Some(best_post.post_url))),
            0, 1, "image_low_confidence", "scored", p_scores, bp, i_scores, bi)

\* success without min(1.0, ...)
success_Unclamped(item, best_post, p_scores, bp, i_scores, bi) ==
  iteration(merged_record(item,
                          Some(best_post.images[bi.at].url),
                          Some(best_post.post_url), Some(best_post.post_title),
                          Some(best_post.labels), Some(best_post.source),
                          Some(best_post.description),
                          RoundTo(RatAdd(RatMul(bp.score, Cent(65)),
                                         RatMul(bi.score, Cent(35))),
                                  10000)),
            None, 1, 0, "matched", "scored", p_scores, bp, i_scores, bi)

\* success
success(item, best_post, p_scores, bp, i_scores, bi) ==
  iteration(merged_record(item,
                          Some(best_post.images[bi.at].url),
                          Some(best_post.post_url), Some(best_post.post_title),
                          Some(best_post.labels), Some(best_post.source),
                          Some(best_post.description),
                          RoundTo(RatMin(Rat(1, 1),
                                         RatAdd(RatMul(bp.score, Cent(65)),
                                                RatMul(bi.score, Cent(35)))),
                                  10000)),
            None, 1, 0, "matched", "scored", p_scores, bp, i_scores, bi)

\* line 411 on: the image is accepted or rejected
image_decision(item, best_post, p_scores, bp, i_scores, bi, it) ==
  IF image_below(bi, it)
    THEN image_rejected(item, best_post, p_scores, bp, i_scores, bi)
    ELSE success(item, best_post, p_scores, bp, i_scores, bi)

\* image_stage taking the last image of the sorted list, whatever its score
image_stage_LastImage(item, best_post, p_scores, bp, i_scores, it) ==
  image_decision(item, best_post, p_scores, bp, i_scores,
                 [at |-> Len(i_scores), score |-> i_scores[Len(i_scores)]], it)

\* lines 403-409: the best image within the accepted post
image_stage(item, best_post, p_scores, bp, i_scores, it) ==
  image_decision(item, best_post, p_scores, bp, i_scores,
                 select_best(i_scores, 1, 0, Rat(-1, 1)), it)

\* line 381 on: the best post is rejected, or its images are scored
post_decision(item, ps, p_scores, bp, pt, it) ==
  IF post_below(bp, pt) THEN post_rejected(item, ps, p_scores, bp)
  ELSE image_stage(item, ps[bp.at], p_scores, bp,
                   score_images(item, ps[bp.at].images,
                                number_from_orig_filename(item.orig_filename)),
                   it)

\* lines 371-378: the best post
post_stage(item, ps, p_scores, pt, it) ==
  post_decision(item, ps, p_scores, select_best(p_scores, 1, 0, Rat(-1, 1)), pt, it)

\* the normal flow; pt and it are the two thresholds
merge_scored(item, ps, pt, it) ==
  post_stage(item, ps, [k \in 1..Len(ps) |-> post_score(item, ps[k]).score], pt, it)

\* the key the loop looks the item up under
item_key(item) == <<normalize(item.folder), normalize(item.title)>>

\* override_applies looking the item up under its raw folder and title
override_applies_RawKey(item, ovs) ==
  <<item.folder, item.title>> \in DOMAIN ovs /\ ovs[<<item.folder, item.title>>].post_url # <<>>

\* "key in overrides and overrides[key].get('post_url')"
override_applies(item, ovs) ==
  item_key(item) \in DOMAIN ovs /\ ovs[item_key(item)].post_url # <<>>

\* one iteration of the merge loop
merge_item(item, ps, ovs, pt, it) ==
  IF override_applies(item, ovs)
    THEN merge_override(item, ps, ovs[item_key(item)])
    ELSE merge_scored(item, ps, pt, it)

(***************************************************************************)
(* Inputs: the records the index, the scraped metadata and the overrides   *)
(* csv are drawn from                                                      *)
(***************************************************************************)
\* folder "1911-03-01 Bombay Fort", title "Bombay Fort", orig_filename "fort 03.jpg", file "p/fort-03.jpg", tags ['Bombay'], date "1911-03-01"
L_FORT ==
  [id |-> 1,
   folder |-> <<"1","9","1","1","-","0","3","-","0","1"," ","B","o","m","b","a","y"," ","F","o","r","t">>,
   title |-> <<"B","o","m","b","a","y"," ","F","o","r","t">>,
   orig_filename |-> Some(<<"f","o","r","t"," ","0","3",".","j","p","g">>),
   file |-> <<"p","/","f","o","r","t","-","0","3",".","j","p","g">>,
   tags |-> <<<<"B","o","m","b","a","y">>>>,
   date |-> Some(<<"1","9","1","1","-","0","3","-","0","1">>)]

\* folder "Folder A", title " Title  A", orig_filename None, file "", tags [], date None
L_A ==
  [id |-> 2,
   folder |-> <<"F","o","l","d","e","r"," ","A">>,
   title |-> <<" ","T","i","t","l","e"," "," ","A">>,
   orig_filename |-> None,
   file |-> <<>>,
   tags |-> <<>>,
   date |-> None]

LocalPool == {L_FORT, L_A}

\* post "https://x.org/1911/03/fort.html" titled "Mumbai Fort", labels ['Bombay', '1910s'], image "https://1.bp.blogspot.com/s0/fort-03.jpg" at position 3
R_FORT3 ==
  [post_url |-> <<"h","t","t","p","s",":","/","/","x",".","o","r","g","/","1","9","1","1","/","0","3","/","f","o","r","t",".","h","t","m","l">>,
   post_title |-> <<"M","u","m","b","a","i"," ","F","o","r","t">>,
   post_date |-> <<>>,
   labels |-> <<<<"B","o","m","b","a","y">>, <<"1","9","1","0","s">>>>,
   source |-> <<>>,
   description |-> <<>>,
   image_url |-> <<"h","t","t","p","s",":","/","/","1",".","b","p",".","b","l","o","g","s","p","o","t",".","c","o","m","/","s","0","/","f","o","r","t","-","0","3",".","j","p","g">>,
   alt |-> <<>>,
   caption |-> <<>>,
   position_in_post |-> 3]

\* post " https://x.org/1911/03/fort.html" titled "Fort", labels ['fort'], image "https://x.org/i/fort-07.jpg" at position 7
R_FORT7 ==
  [post_url |-> <<" ","h","t","t","p","s",":","/","/","x",".","o","r","g","/","1","9","1","1","/","0","3","/","f","o","r","t",".","h","t","m","l">>,
   post_title |-> <<"F","o","r","t">>,
   post_date |-> <<"1"," ","M","a","r","c","h">>,
   labels |-> <<<<"f","o","r","t">>>>,
   source |-> <<"S","r","c">>,
   description |-> <<>>,
   image_url |-> <<"h","t","t","p","s",":","/","/","x",".","o","r","g","/","i","/","f","o","r","t","-","0","7",".","j","p","g">>,
   alt |-> <<"g","a","t","e">>,
   caption |-> <<>>,
   position_in_post |-> 7]

\* post "https://x.org/1911/03/fort2.html" titled "Mumbai Fort", labels ['Bombay', '1910s'], image "https://x.org/i/fort-03.gif" at position 3
R_TIE ==
  [post_url |-> <<"h","t","t","p","s",":","/","/","x",".","o","r","g","/","1","9","1","1","/","0","3","/","f","o","r","t","2",".","h","t","m","l">>,
   post_title |-> <<"M","u","m","b","a","i"," ","F","o","r","t">>,
   post_date |-> <<>>,
   labels |-> <<<<"B","o","m","b","a","y">>, <<"1","9","1","0","s">>>>,
   source |-> <<>>,
   description |-> <<>>,
   image_url |-> <<"h","t","t","p","s",":","/","/","x",".","o","r","g","/","i","/","f","o","r","t","-","0","3",".","g","i","f">>,
   alt |-> <<>>,
   caption |-> <<>>,
   position_in_post |-> 3]

\* post "https://x.org/noise.html" titled "Mumbai Fort", labels ['Bombay'], image "https://x.org/page.html" at position 1
R_NOISE ==
  [post_url |-> <<"h","t","t","p","s",":","/","/","x",".","o","r","g","/","n","o","i","s","e",".","h","t","m","l">>,
   post_title |-> <<"M","u","m","b","a","i"," ","F","o","r","t">>,
   post_date |-> <<>>,
   labels |-> <<<<"B","o","m","b","a","y">>>>,
   source |-> <<>>,
   description |-> <<>>,
   image_url |-> <<"h","t","t","p","s",":","/","/","x",".","o","r","g","/","p","a","g","e",".","h","t","m","l">>,
   alt |-> <<>>,
   caption |-> <<>>,
   position_in_post |-> 1]

RemotePool == {R_FORT3, R_FORT7, R_TIE, R_NOISE}

\* post "https://x.org/1911/03/fort.html" titled " ", labels [], description "The  gate", image "https://2.bp.blogspot.com/s0/fort-03.jpg" at position 3
S_FORT3B ==
  [post_url |-> <<"h","t","t","p","s",":","/","/","x",".","o","r","g","/","1","9","1","1","/","0","3","/","f","o","r","t",".","h","t","m","l">>,
   post_title |-> <<" ">>,
   post_date |-> <<>>,
   labels |-> <<>>,
   source |-> <<>>,
   description |-> <<"T","h","e"," "," ","g","a","t","e">>,
   image_url |-> <<"h","t","t","p","s",":","/","/","2",".","b","p",".","b","l","o","g","s","p","o","t",".","c","o","m","/","s","0","/","f","o","r","t","-","0","3",".","j","p","g">>,
   alt |-> <<>>,
   caption |-> <<>>,
   position_in_post |-> 3]

\* post "https://x.org/1911/03/fort.html" titled "Zero", labels ['Gate'], description "", image "https://1.bp.blogspot.com/a/fort" at position 0
S_FORT0 ==
  [post_url |-> <<"h","t","t","p","s",":","/","/","x",".","o","r","g","/","1","9","1","1","/","0","3","/","f","o","r","t",".","h","t","m","l">>,
   post_title |-> <<"Z","e","r","o">>,
   post_date |-> <<>>,
   labels |-> <<<<"G","a","t","e">>>>,
   source |-> <<>>,
   description |-> <<>>,
   image_url |-> <<"h","t","t","p","s",":","/","/","1",".","b","p",".","b","l","o","g","s","p","o","t",".","c","o","m","/","a","/","f","o","r","t">>,
   alt |-> <<>>,
   caption |-> <<>>,
   position_in_post |-> 0]

\* post "https://x.org/1911/03/fort.html?m=1" titled "Fort Mobile", labels [], description "", image "https://x.org/i/fort-01.png" at position 1
S_QUERY ==
  [post_url |-> <<"h","t","t","p","s",":","/","/","x",".","o","r","g","/","1","9","1","1","/","0","3","/","f","o","r","t",".","h","t","m","l","?","m","=","1">>,
   post_title |-> <<"F","o","r","t"," ","M","o","b","i","l","e">>,
   post_date |-> <<>>,
   labels |-> <<>>,
   source |-> <<>>,
   description |-> <<>>,
   image_url |-> <<"h","t","t","p","s",":","/","/","x",".","o","r","g","/","i","/","f","o","r","t","-","0","1",".","p","n","g">>,
   alt |-> <<>>,
   caption |-> <<>>,
   position_in_post |-> 1]

\* post "https://x.org/1911/03/fort.html" titled "Broken", labels ['x'], description "junk", image "https://[x/fort.jpg" at position 2
S_BRACKET ==
  [post_url |-> <<"h","t","t","p","s",":","/","/","x",".","o","r","g","/","1","9","1","1","/","0","3","/","f","o","r","t",".","h","t","m","l">>,
   post_title |-> <<"B","r","o","k","e","n">>,
   post_date |-> <<"2"," ","M","a","r","c","h">>,
   labels |-> <<<<"x">>>>,
   source |-> <<"J","u","n","k">>,
   description |-> <<"j","u","n","k">>,
   image_url |-> <<"h","t","t","p","s",":","/","/","[","x","/","f","o","r","t",".","j","p","g">>,
   alt |-> <<>>,
   caption |-> <<>>,
   position_in_post |-> 2]

\* post "https://x.org/1911/03/fort.html" titled "No Image", labels ['y'], description "none", image "" at position 1
S_EMPTY ==
  [post_url |-> <<"h","t","t","p","s",":","/","/","x",".","o","r","g","/","1","9","1","1","/","0","3","/","f","o","r","t",".","h","t","m","l">>,
   post_title |-> <<"N","o"," ","I","m","a","g","e">>,
   post_date |-> <<"3"," ","M","a","r","c","h">>,
   labels |-> <<<<"y">>>>,
   source |-> <<"N","o","n","e">>,
   description |-> <<"n","o","n","e">>,
   image_url |-> <<>>,
   alt |-> <<>>,
   caption |-> <<>>,
   position_in_post |-> 1]

\* the rows the aggregation is checked on
ScrapedPool == RemotePool \cup {S_FORT3B, S_FORT0, S_QUERY, S_BRACKET, S_EMPTY}

\* folder "Folder A", title "Title A", post_url "https://x.org/1911/03/fort.html", image_pos "7"
O_A_FORT ==
  [folder |-> <<"F","o","l","d","e","r"," ","A">>,
   title |-> <<"T","i","t","l","e"," ","A">>,
   post_url |-> <<"h","t","t","p","s",":","/","/","x",".","o","r","g","/","1","9","1","1","/","0","3","/","f","o","r","t",".","h","t","m","l">>,
   image_pos |-> <<"7">>]

\* folder " Folder  A", title "Title A", post_url "https://x.org/missing.html", image_pos "x"
O_A_MISSING ==
  [folder |-> <<" ","F","o","l","d","e","r"," "," ","A">>,
   title |-> <<"T","i","t","l","e"," ","A">>,
   post_url |-> <<"h","t","t","p","s",":","/","/","x",".","o","r","g","/","m","i","s","s","i","n","g",".","h","t","m","l">>,
   image_pos |-> <<"x">>]

\* folder "1911-03-01 Bombay Fort", title "Bombay Fort", post_url "", image_pos ""
O_FORT_EMPTY ==
  [folder |-> <<"1","9","1","1","-","0","3","-","0","1"," ","B","o","m","b","a","y"," ","F","o","r","t">>,
   title |-> <<"B","o","m","b","a","y"," ","F","o","r","t">>,
   post_url |-> <<>>,
   image_pos |-> <<>>]

OverridePool == {O_A_FORT, O_A_MISSING, O_FORT_EMPTY}

\* --post-threshold and --img-threshold, in hundredths
PostThresholds == {50, 114}
ImgThresholds == {32, 106}

MaxIndex == 2
MaxMeta == 2
MaxOverrides == 1
MaxScraped == 3

SeqsUpTo(S, n) == UNION {[1..k -> S] : k \in 0..n}

(***************************************************************************)
(* The run                                                                 *)
(***************************************************************************)
VARIABLES
  index,           \* the local index, as loaded
  meta,            \* the scraped per-image rows, as loaded
  override_rows,   \* the rows of the overrides csv
  post_threshold,  \* args.post_threshold, in hundredths
  img_threshold,   \* args.img_threshold, in hundredths
  overrides,       \* (folder, title) -> entry
  post_map,        \* the grouping dict, in insertion order
  posts,           \* the candidate table
  merged,          \* the merged output
  review_rows,     \* the review queue
  matched,
  unmatched,
  report,          \* the lines of the report, once written
  locals,          \* per processed item: what the loop body's locals ended with
  pc,              \* the statement the script is at
  next_row,        \* position of the grouping loop in meta
  next_item,       \* position of the merge loop in index
  run,             \* 1 in the first run of the script, 2 in a second run
  prev_outcomes,   \* in a second run: the outcomes of the first
  worker_results,  \* what the workers of a second run produced, in completion order
  sequential       \* in a second run: what the first, sequential run wrote

inputs == <<index, meta, override_rows, post_threshold, img_threshold>>
vars == <<index, meta, override_rows, post_threshold, img_threshold, overrides,
          post_map, posts, merged, review_rows, matched, unmatched, report,
          locals, pc, next_row, next_item, run, prev_outcomes,
          worker_results, sequential>>
parallel == <<worker_results, sequential>>

NoOverrides == [k \in {} |-> None]

Init ==
  /\ index \in SeqsUpTo(LocalPool, MaxIndex)
  /\ meta \in SeqsUpTo(RemotePool, MaxMeta)
  /\ override_rows \in SeqsUpTo(OverridePool, MaxOverrides)
  /\ post_threshold \in PostThresholds
  /\ img_threshold \in ImgThresholds
  /\ overrides = NoOverrides
  /\ post_map = <<>>
  /\ posts = <<>>
  /\ merged = <<>>
  /\ review_rows = <<>>
  /\ matched = 0
  /\ unmatched = 0
  /\ report = None
  /\ locals = <<>>
  /\ pc = "load_overrides"
  /\ next_row = 1
  /\ next_item = 1
  /\ run = 1
  /\ prev_outcomes = <<>>
  /\ worker_results = <<>>
  /\ sequential = None

\* lines 179-191: read the overrides csv
LoadOverrides ==
  /\ pc = "load_overrides"
  /\ overrides' = load_overrides(override_rows, 1, NoOverrides)
  /\ pc' = "group"
  /\ UNCHANGED <<inputs, post_map, posts, merged, review_rows, matched, unmatched,
                 report, locals, next_row, next_item, run, prev_outcomes, parallel>>

\* lines 199-215: one iteration of the grouping loop
GroupRow ==
  /\ pc = "group"
  /\ next_row <= Len(meta)
  /\ post_map' = IF row_survives(meta[next_row]) THEN add_row(post_map, meta[next_row])
                 ELSE post_map
  /\ next_row' = next_row + 1
  /\ UNCHANGED <<inputs, overrides, posts, merged, review_rows, matched, unmatched,
                 report, locals, pc, next_item, run, prev_outcomes, parallel>>

\* lines 217-219: sort every post's images
SortImages ==
  /\ pc = "group"
  /\ next_row > Len(meta)
  /\ post_map' = [k \in 1..Len(post_map) |->
                    [post_map[k] EXCEPT !.images = sort_images(@)]]
  /\ pc' = "compile"
  /\ UNCHANGED <<inputs, overrides, posts, merged, review_rows, matched, unmatched,
                 report, locals, next_row, next_item, run, prev_outcomes, parallel>>

\* lines 221-237: compile the candidate table
CompilePosts ==
  /\ pc = "compile"
  /\ posts' = [k \in 1..Len(post_map) |-> compile_post(post_map[k])]
  /\ pc' = "merge"
  /\ UNCHANGED <<inputs, overrides, post_map, merged, review_rows, matched, unmatched,
                 report, locals, next_row, next_item, run, prev_outcomes, parallel>>

\* MergeItem with the unknown-override branch leaving the loop body before
\* merged.append(out)
MergeItem_SkipsUnknownOverride ==
  /\ pc = "merge"
  /\ next_item <= Len(index)
  /\ \E r \in {merge_item(index[next_item], posts, overrides,
                          Cent(post_threshold), Cent(img_threshold))} :
         /\ merged' = IF r.outcome = "override_post_not_found" THEN merged
                       ELSE Append(merged, r.out)
         /\ review_rows' = IF r.review = None THEN review_rows
                           ELSE Append(review_rows, r.review[1])
         /\ matched' = matched + r.matched
         /\ unmatched' = unmatched + r.unmatched
         /\ locals' = Append(locals, [outcome |-> r.outcome, branch |-> r.branch,
                                      p_scores |-> r.p_scores,
                                      best_post |-> r.best_post,
                                      best_p_score |-> r.best_p_score,
                                      i_scores |-> r.i_scores,
                                      best_img |-> r.best_img,
                                      best_i_score |-> r.best_i_score])
  /\ next_item' = next_item + 1
  /\ UNCHANGED <<inputs, overrides, post_map, posts, report, pc, next_row, run,
                 prev_outcomes, parallel>>

\* lines 310-449: one iteration of the merge loop
MergeItem ==
  /\ pc = "merge"
  /\ next_item <= Len(index)
  /\ \E r \in {merge_item(index[next_item], posts, overrides,
                          Cent(post_threshold), Cent(img_threshold))} :
         /\ merged' = Append(merged, r.out)
         /\ review_rows' = IF r.review = None THEN review_rows
                           ELSE Append(review_rows, r.review[1])
         /\ matched' = matched + r.matched
         /\ unmatched' = unmatched + r.unmatched
         /\ locals' = Append(locals, [outcome |-> r.outcome, branch |-> r.branch,
                                      p_scores |-> r.p_scores,
                                      best_post |-> r.best_post,
                                      best_p_score |-> r.best_p_score,
                                      i_scores |-> r.i_scores,
                                      best_img |-> r.best_img,
                                      best_i_score |-> r.best_i_score])
  /\ next_item' = next_item + 1
  /\ UNCHANGED <<inputs, overrides, post_map, posts, report, pc, next_row, run,
                 prev_outcomes, parallel>>

\* lines 451-475: write the outputs; the csv writer fills the score columns
\* a row lacks
WriteOutputs ==
  /\ pc = "merge"
  /\ next_item > Len(index)
  /\ review_rows' = [k \in 1..Len(review_rows) |->
                       [review_rows[k] EXCEPT
                          !.post_score = IF @ = None THEN Some(<<>>) ELSE @,
                          !.img_score = IF @ = None THEN Some(<<>>) ELSE @]]
  /\ report' = Some([index_rows |-> Len(index), posts_discovered |-> Len(posts),
                     matched |-> matched, needs_review |-> unmatched,
                     post_threshold |-> post_threshold,
                     img_threshold |-> img_threshold])
  /\ pc' = "done"
  /\ UNCHANGED <<inputs, overrides, post_map, posts, merged, matched, unmatched,
                 locals, next_row, next_item, run, prev_outcomes, parallel>>

Next ==
  \/ LoadOverrides
  \/ GroupRow
  \/ SortImages
  \/ CompilePosts
  \/ MergeItem
  \/ WriteOutputs

Spec == Init /\ [][Next]_vars

\* the script is run again on the same files with a higher --post-threshold
RunAgainHigher ==
  /\ pc = "done"
  /\ run = 1
  /\ \E t \in PostThresholds : t > post_threshold /\ post_threshold' = t
  /\ prev_outcomes' = [k \in 1..Len(locals) |-> locals[k].outcome]
  /\ run' = 2
  /\ overrides' = NoOverrides
  /\ post_map' = <<>>
  /\ posts' = <<>>
  /\ merged' = <<>>
  /\ review_rows' = <<>>
  /\ matched' = 0
  /\ unmatched' = 0
  /\ report' = None
  /\ locals' = <<>>
  /\ pc' = "load_overrides"
  /\ next_row' = 1
  /\ next_item' = 1
  /\ UNCHANGED <<index, meta, override_rows, img_threshold, parallel>>

NextTwoRuns ==
  \/ LoadOverrides
  \/ GroupRow
  \/ SortImages
  \/ CompilePosts
  \/ MergeItem
  \/ WriteOutputs
  \/ RunAgainHigher

SpecTwoRuns == Init /\ [][NextTwoRuns]_vars

\* the merge loop of the first run: the sequential pass
SequentialMergeItem == run = 1 /\ MergeItem

\* the script is run again on the same files, the records of the index
\* handed to workers
RunAgainWithWorkers ==
  /\ pc = "done"
  /\ run = 1
  /\ sequential' = Some([merged |-> merged, review_rows |-> review_rows,
                          matched |-> matched, unmatched |-> unmatched])
  /\ prev_outcomes' = [k \in 1..Len(locals) |-> locals[k].outcome]
  /\ run' = 2
  /\ worker_results' = <<>>
  /\ overrides' = NoOverrides
  /\ post_map' = <<>>
  /\ posts' = <<>>
  /\ merged' = <<>>
  /\ review_rows' = <<>>
  /\ matched' = 0
  /\ unmatched' = 0
  /\ report' = None
  /\ locals' = <<>>
  /\ pc' = "load_overrides"
  /\ next_row' = 1
  /\ next_item' = 1
  /\ UNCHANGED inputs

\* the positions of the index a worker has dealt with
Worked == {worker_results[w].position : w \in 1..Len(worker_results)}

\* a worker runs the body of the merge loop (lines 311-449) on a record of
\* the index no worker has taken yet, whichever it is
WorkerMergeItem ==
  /\ pc = "merge"
  /\ run = 2
  /\ \E k \in (1..Len(index)) \ Worked :
       \E r \in {merge_item(index[k], posts, overrides,
                            Cent(post_threshold), Cent(img_threshold))} :
         worker_results' = Append(worker_results,
                                  [position |-> k, out |-> r.out, review |-> r.review,
                                   matched |-> r.matched, unmatched |-> r.unmatched,
                                   outcome |-> r.outcome])
  /\ UNCHANGED <<inputs, overrides, post_map, posts, merged, review_rows, matched,
                 unmatched, report, locals, pc, next_row, next_item, run,
                 prev_outcomes, sequential>>

\* the result of the worker that took position k
result_at(results, k) == results[CHOOSE w \in 1..Len(results) : results[w].position = k]

\* the review rows of positions k.. of the index, in that order
RECURSIVE reviews_from(_, _)
reviews_from(results, k) ==
  IF k > Len(results) THEN <<>>
  ELSE result_at(results, k).review \o reviews_from(results, k + 1)

RECURSIVE count_from(_, _, _)
count_from(results, k, f) ==
  IF k > Len(results) THEN 0 ELSE results[k][f] + count_from(results, k + 1, f)

\* RestoreOrder leaving the results in the order the workers completed them
RestoreOrder_CompletionOrder ==
  /\ pc = "merge"
  /\ run = 2
  /\ next_item <= Len(index)
  /\ Worked = 1..Len(index)
  /\ merged' = [k \in 1..Len(index) |-> worker_results[k].out]
  /\ review_rows' = reviews_from([k \in 1..Len(index) |->
                                    [worker_results[k] EXCEPT !.position = k]], 1)
  /\ matched' = count_from(worker_results, 1, "matched")
  /\ unmatched' = count_from(worker_results, 1, "unmatched")
  /\ next_item' = Len(index) + 1
  /\ UNCHANGED <<inputs, overrides, post_map, posts, report, locals, pc, next_row,
                 run, prev_outcomes, parallel>>

\* all records are dealt with: merged and review_rows are put together in
\* the order of the index, as the loop of line 310 appends them
RestoreOrder ==
  /\ pc = "merge"
  /\ run = 2
  /\ next_item <= Len(index)
  /\ Worked = 1..Len(index)
  /\ merged' = [k \in 1..Len(index) |-> result_at(worker_results, k).out]
  /\ review_rows' = reviews_from(worker_results, 1)
  /\ matched' = count_from(worker_results, 1, "matched")
  /\ unmatched' = count_from(worker_results, 1, "unmatched")
  /\ next_item' = Len(index) + 1
  /\ UNCHANGED <<inputs, overrides, post_map, posts, report, locals, pc, next_row,
                 run, prev_outcomes, parallel>>

NextWorkers ==
  \/ LoadOverrides
  \/ GroupRow
  \/ SortImages
  \/ CompilePosts
  \/ SequentialMergeItem
  \/ WriteOutputs
  \/ RunAgainWithWorkers
  \/ WorkerMergeItem
  \/ RestoreOrder

SpecWorkers == Init /\ [][NextWorkers]_vars

\* the texts the synonym folding is checked on: up to MaxWords words, each a
\* key or a value of SYNONYMS or another word, with a separator between
MaxWords == 2
Words ==
  {SYNONYMS[k][1] : k \in 1..Len(SYNONYMS)} \cup {SYNONYMS[k][2] : k \in 1..Len(SYNONYMS)}
    \cup {<<"B","o","m","b","a","y">>, <<"F","o","r","t","!">>}
Separators == {<<" ">>, <<"-">>}

RECURSIVE TextsOf(_)
TextsOf(n) ==
  IF n = 0 THEN {<<>>}
  ELSE IF n = 1 THEN Words \cup TextsOf(0)
  ELSE TextsOf(n - 1) \cup
       {t \o sep \o w : t \in TextsOf(n - 1) \ {<<>>}, sep \in Separators, w \in Words}

\* a row whose post title and only label are text
R_LABELLED(text) == [R_FORT3 EXCEPT !.post_title = text, !.labels = <<text>>]

\* a run on one index record and one row labelled with a text of TextsOf(MaxWords)
InitSynonyms ==
  /\ index = <<L_FORT>>
  /\ meta \in {<<R_LABELLED(text)>> : text \in TextsOf(MaxWords)}
  /\ override_rows = <<>>
  /\ post_threshold = 50
  /\ img_threshold = 32
  /\ overrides = NoOverrides
  /\ post_map = <<>>
  /\ posts = <<>>
  /\ merged = <<>>
  /\ review_rows = <<>>
  /\ matched = 0
  /\ unmatched = 0
  /\ report = None
  /\ locals = <<>>
  /\ pc = "load_overrides"
  /\ next_row = 1
  /\ next_item = 1
  /\ run = 1
  /\ prev_outcomes = <<>>
  /\ worker_results = <<>>
  /\ sequential = None

SpecSynonyms == InitSynonyms /\ [][Next]_vars

\* the image urls and the index files the position scenario is drawn from:
\* a directory with or without "/s0/", a file name, ".jpg", and a query
\* with or without "imgmax=0"
ImageUrls ==
  {d \o n \o <<".","j","p","g">> \o q :
     d \in {<<"h","t","t","p","s",":","/","/","1",".","b","p",".","b","l","o","g","s","p","o","t",".","c","o","m","/","a","/">>, <<"h","t","t","p","s",":","/","/","1",".","b","p",".","b","l","o","g","s","p","o","t",".","c","o","m","/","s","0","/">>},
     n \in {<<"x">>, <<"f","o","r","t">>, <<"f","o","r","t","-","g","a","t","e">>, <<"g","a","t","e","-","t","o","w","e","r","-","0","7">>},
     q \in {<<>>, <<"?","i","m","g","m","a","x","=","0">>}}
IndexFiles == {<<>>, <<"p","/","f","o","r","t","-","0","3",".","j","p","g">>, <<"p","/","f","o","r","t","-","g","a","t","e","-","t","o","w","e","r",".","j","p","g">>}

\* the pairs of image urls with the same original-quality boost; the boost
\* is 0, 0.2 (by "/s0/" or by "imgmax=0") or 0.4.  The scores of the model
\* are exact hundredths: with equal boosts the two scores of the scenario
\* are 0.12 or more apart, far beyond the rounding of the floats of the code
SameBoost == {p \in ImageUrls \X ImageUrls : prefer_original(p[1]) = prefer_original(p[2])}

\* a row of the post of R_FORT3 with image url at position pos
R_IMAGE(url, pos) == [R_FORT3 EXCEPT !.image_url = url, !.position_in_post = pos]

\* a run on L_FORT (orig_filename "fort 03.jpg": guessed position 3) with a
\* file of IndexFiles, and one post with an image at position 3 and an image
\* at position 7 of the same boost, listed in either order
InitPosition ==
  /\ index \in {<<[L_FORT EXCEPT !.file = f]>> : f \in IndexFiles}
  /\ meta \in {<<R_IMAGE(p[1], 3), R_IMAGE(p[2], 7)>> : p \in SameBoost}
            \cup {<<R_IMAGE(p[2], 7), R_IMAGE(p[1], 3)>> : p \in SameBoost}
  /\ override_rows = <<>>
  /\ post_threshold = 50
  /\ img_threshold \in ImgThresholds
  /\ overrides = NoOverrides
  /\ post_map = <<>>
  /\ posts = <<>>
  /\ merged = <<>>
  /\ review_rows = <<>>
  /\ matched = 0
  /\ unmatched = 0
  /\ report = None
  /\ locals = <<>>
  /\ pc = "load_overrides"
  /\ next_row = 1
  /\ next_item = 1
  /\ run = 1
  /\ prev_outcomes = <<>>
  /\ worker_results = <<>>
  /\ sequential = None

SpecPosition == InitPosition /\ [][Next]_vars

\* titles with and without a part marker: Arabic (0, 2, 3, 10, and 100, which
\* is no part number) and roman (ii, iv, x), with the separators "-" and ":"
PartTexts ==
  {<<"B","o","m","b","a","y"," ","F","o","r","t">>,
   <<"F","o","r","t"," ","P","a","r","t"," ","0">>,
   <<"F","o","r","t"," ","P","a","r","t"," ","2">>,
   <<"F","o","r","t"," ","p","a","r","t"," ","I","I">>,
   <<"F","o","r","t"," ","(","P","a","r","t"," ","-"," ","3",")">>,
   <<"F","o","r","t"," ","P","A","R","T",":"," ","x">>,
   <<"F","o","r","t"," ","P","a","r","t"," ","1","0">>,
   <<"F","o","r","t"," ","P","a","r","t"," ","1","0","0">>,
   <<"F","o","r","t"," ","P","a","r","t"," ","i","v">>}

\* folders with and without a part marker
PartFolders == {<<"1","9","1","1","-","0","3","-","0","1"," ","B","o","m","b","a","y"," ","F","o","r","t">>,
                <<"1","9","1","1","-","0","3","-","0","1"," ","F","o","r","t"," ","p","a","r","t"," ","i","i">>}

\* a run on one index record and one post, each titled with a text of
\* PartTexts, the record in a folder of PartFolders
InitParts ==
  /\ index \in {<<[L_FORT EXCEPT !.folder = f, !.title = t]>> : f \in PartFolders, t \in PartTexts}
  /\ meta \in {<<[R_FORT3 EXCEPT !.post_title = t]>> : t \in PartTexts}
  /\ override_rows = <<>>
  /\ post_threshold = 50
  /\ img_threshold = 32
  /\ overrides = NoOverrides
  /\ post_map = <<>>
  /\ posts = <<>>
  /\ merged = <<>>
  /\ review_rows = <<>>
  /\ matched = 0
  /\ unmatched = 0
  /\ report = None
  /\ locals = <<>>
  /\ pc = "load_overrides"
  /\ next_row = 1
  /\ next_item = 1
  /\ run = 1
  /\ prev_outcomes = <<>>
  /\ worker_results = <<>>
  /\ sequential = None

SpecParts == InitParts /\ [][Next]_vars

\* a run with the default thresholds on one index record, one override and
\* up to MaxScraped rows of ScrapedPool
InitAggregation ==
  /\ index \in {<<L_FORT>>, <<L_A>>}
  /\ meta \in SeqsUpTo(ScrapedPool, MaxScraped)
  /\ override_rows = <<O_A_FORT>>
  /\ post_threshold = 50
  /\ img_threshold = 32
  /\ overrides = NoOverrides
  /\ post_map = <<>>
  /\ posts = <<>>
  /\ merged = <<>>
  /\ review_rows = <<>>
  /\ matched = 0
  /\ unmatched = 0
  /\ report = None
  /\ locals = <<>>
  /\ pc = "load_overrides"
  /\ next_row = 1
  /\ next_item = 1
  /\ run = 1
  /\ prev_outcomes = <<>>
  /\ worker_results = <<>>
  /\ sequential = None

SpecAggregation == InitAggregation /\ [][Next]_vars

(***************************************************************************)
(* Properties                                                              *)
(***************************************************************************)
ItemKeys == DOMAIN L_FORT

\* the input fields a merged record carries
ItemPart(m) == [f \in ItemKeys |-> m[f]]

Unresolved == SelectSeq(merged, LAMBDA m : m.image_url = None)

\* C1: the merge loop appends exactly one merged record per local record,
\* in input order: after k iterations merged holds k records, the k-th
\* carrying the fields of the k-th record of the index, and at the end
\* there are as many merged records as index records.
C1_OneMergedPerRecordInOrder ==
  /\ Len(merged) = next_item - 1
  /\ pc = "done" => Len(merged) = Len(index)
  /\ \A k \in 1..Len(merged) : ItemPart(merged[k]) = index[k]

C1_Witness ==
  /\ pc = "done"
  /\ Len(merged) = 2
  /\ locals[1].outcome = "override_post_not_found"
  /\ locals[2].outcome = "matched"
  /\ merged[1].id # merged[2].id

\* C2: every record gets at most one review row, and it gets one exactly
\* when it did not end fully matched, that is when its merged image_url is
\* null: the review rows are, in order, the rows of the records with a null
\* image_url, and a record has a null image_url iff its outcome is neither
\* matched nor override_forced.
C2_ReviewRowIffUnresolved ==
  /\ Len(review_rows) = Len(Unresolved)
  /\ \A j \in 1..Len(Unresolved) :
       /\ review_rows[j].id = Unresolved[j].id
       /\ review_rows[j].folder = Unresolved[j].folder
       /\ review_rows[j].title = Unresolved[j].title
  /\ \A k \in 1..Len(merged) :
       (merged[k].image_url = None) <=> (locals[k].outcome \notin {"matched", "override_forced"})

C2_Witness ==
  /\ pc = "done"
  /\ Len(merged) = 2
  /\ locals[1].outcome = "image_low_confidence"
  /\ locals[2].outcome = "override_forced"
  /\ Len(review_rows) = 1

\* C3: the counters agree with the terminal states: matched is the number
\* of merged records with an image, unmatched is the number of review rows,
\* together they count the records processed, and the report written at the
\* end carries these numbers for the whole index.
C3_CountersConsistent ==
  /\ matched = Cardinality({k \in 1..Len(merged) : merged[k].image_url # None})
  /\ unmatched = Len(review_rows)
  /\ matched + unmatched = Len(merged)
  /\ pc = "done" =>
       /\ matched + unmatched = Len(index)
       /\ report[1].index_rows = Len(index)
       /\ report[1].matched = matched
       /\ report[1].needs_review = Len(review_rows)

C3_Witness ==
  /\ pc = "done"
  /\ matched = 1
  /\ unmatched = 1
  /\ \E k \in 1..Len(locals) : locals[k].branch = "override"
\* C4: every merged record's match_confidence lies in [0.0, 1.0].
C4_ConfidenceWithinUnitInterval ==
  \A k \in 1..Len(merged) :
    merged[k].match_confidence >= 0 /\ merged[k].match_confidence <= 10000

\* the key of the k-th index record, and whether the override table has it
KeyOf(k) == <<normalize(index[k].folder), normalize(index[k].title)>>
HasEntry(k) == KeyOf(k) \in DOMAIN overrides
HasForcedPost(k) == HasEntry(k) /\ overrides[KeyOf(k)].post_url # <<>>

\* C5 as stated: for every record whose normalized (folder, title) has an
\* entry in the override table, post_score is never evaluated and the
\* record's post comes from the entry.
C5_EntryNeverScored ==
  \A k \in 1..Len(locals) :
    HasEntry(k) => locals[k].branch = "override" /\ locals[k].p_scores = <<>>

\* C5 amended: for every record whose normalized (folder, title) has an
\* entry with a non-empty post URL, post_score is never evaluated and the
\* record's post URL is the entry's; a record without such an entry goes
\* through scoring.
C5_ForcedPostNeverScored ==
  \A k \in 1..Len(locals) :
    /\ HasForcedPost(k) =>
         /\ locals[k].branch = "override"
         /\ locals[k].p_scores = <<>>
         /\ merged[k].post_url = Some(overrides[KeyOf(k)].post_url)
    /\ ~HasForcedPost(k) =>
         /\ locals[k].branch = "scored"
         /\ Len(locals[k].p_scores) = Len(posts)

C5_Witness ==
  \E k \in 1..Len(locals) :
    /\ HasForcedPost(k)
    /\ posts # <<>>
    /\ locals[k].outcome = "override_forced"
    /\ index[k].title # normalize(index[k].title)

\* C6 as stated: a record whose override names a post missing from the
\* candidate table is emitted with image URL, post URL, post title, labels,
\* source and description all null and confidence 0.0.
C6_AllMatchFieldsNull ==
  \A k \in 1..Len(locals) :
    locals[k].outcome = "override_post_not_found" =>
      /\ merged[k].image_url = None
      /\ merged[k].post_url = None
      /\ merged[k].post_title = None
      /\ merged[k].post_labels = None
      /\ merged[k].post_source = None
      /\ merged[k].post_description = None
      /\ merged[k].match_confidence = 0

\* the next record has an override whose post is not in the candidate table
UnknownOverrideNext ==
  /\ pc = "merge"
  /\ next_item <= Len(index)
  /\ HasForcedPost(next_item)
  /\ \A j \in 1..Len(posts) : posts[j].post_url # overrides[KeyOf(next_item)].post_url

\* C6 amended: when an override forces a post URL that is not in the
\* candidate table the run does not abort: the step appends one record with
\* image URL, post title, labels, source and description null, post URL set
\* to the forced URL and confidence 0.0, appends exactly one review row with
\* reason override_post_not_found, and the loop moves on to the next record.
C6_UnknownOverrideStep ==
  [][UnknownOverrideNext =>
       /\ Len(merged') = Len(merged) + 1
       /\ SubSeq(merged', 1, Len(merged)) = merged
       /\ ItemPart(merged'[Len(merged')]) = index[next_item]
       /\ merged'[Len(merged')].image_url = None
       /\ merged'[Len(merged')].post_url = Some(overrides[KeyOf(next_item)].post_url)
       /\ merged'[Len(merged')].post_title = None
       /\ merged'[Len(merged')].post_labels = None
       /\ merged'[Len(merged')].post_source = None
       /\ merged'[Len(merged')].post_description = None
       /\ merged'[Len(merged')].match_confidence = 0
       /\ Len(review_rows') = Len(review_rows) + 1
       /\ SubSeq(review_rows', 1, Len(review_rows)) = review_rows
       /\ review_rows'[Len(review_rows')].reason = "override_post_not_found"
       /\ review_rows'[Len(review_rows')].id = index[next_item].id
       /\ review_rows'[Len(review_rows')].post_url_suggested
            = Some(overrides[KeyOf(next_item)].post_url)
       /\ pc' = "merge"
       /\ next_item' = next_item + 1]_vars

C6_Witness ==
  /\ Len(locals) = 2
  /\ locals[1].outcome = "override_post_not_found"
  /\ locals[2].outcome = "matched"
  /\ Len(review_rows) = 1

\* C7: with the inputs and the image threshold fixed, a second run with a
\* higher post threshold leaves every record's outcome as it was or moves it
\* from matched or image_low_confidence to post_low_confidence.
C7_HigherPostThresholdOnlyRejects ==
  run = 2 =>
    \A k \in 1..Len(locals) :
      \/ locals[k].outcome = prev_outcomes[k]
      \/ /\ prev_outcomes[k] \in {"matched", "image_low_confidence"}
         /\ locals[k].outcome = "post_low_confidence"

C7_Witness ==
  /\ run = 2
  /\ pc = "done"
  /\ Len(locals) = 2
  /\ prev_outcomes[1] = "matched" /\ locals[1].outcome = "post_low_confidence"
  /\ prev_outcomes[2] = "post_low_confidence" /\ locals[2].outcome = "post_low_confidence"

\* the greatest of a non-empty list of scores
MaxScore(scores) == CHOOSE x \in Range(scores) : \A y \in Range(scores) : ~RatLT(x, y)

\* C9: a record without an applicable override ends in exactly one of
\* post_low_confidence, image_low_confidence and matched: post_low_confidence
\* iff the best post score is below the post threshold (no image is scored
\* then), otherwise image_low_confidence iff the best image score in the
\* chosen post is below the image threshold, otherwise matched; a score
\* equal to its threshold is accepted.  With no candidate post at all the
\* record is post_low_confidence.
C9_ClassifiedByThresholds ==
  \A k \in 1..Len(locals) :
    ~HasForcedPost(k) =>
      LET l == locals[k]
          postBelow == l.p_scores = <<>> \/ RatLT(MaxScore(l.p_scores), Cent(post_threshold))
      IN  /\ l.outcome \in {"post_low_confidence", "image_low_confidence", "matched"}
          /\ (l.outcome = "post_low_confidence") <=> postBelow
          /\ postBelow => l.i_scores = <<>>
          /\ ~postBelow =>
               /\ l.i_scores # <<>>
               /\ (l.outcome = "image_low_confidence")
                    <=> RatLT(MaxScore(l.i_scores), Cent(img_threshold))

C9_Witness ==
  \E k \in 1..Len(locals) :
    /\ ~HasForcedPost(k)
    /\ locals[k].outcome = "matched"
    /\ MaxScore(locals[k].p_scores) = Cent(post_threshold)
    /\ MaxScore(locals[k].i_scores) = Cent(img_threshold)

\* the normalized post urls of the surviving rows, each at its first appearance
RECURSIVE FirstSeen(_, _, _)
FirstSeen(rows, k, acc) ==
  IF k > Len(rows) THEN acc
  ELSE IF /\ rows[k].image_url # <<>>
          /\ host_ok(rows[k].image_url)
          /\ normalize(rows[k].post_url) \notin Range(acc)
         THEN FirstSeen(rows, k + 1, Append(acc, normalize(rows[k].post_url)))
         ELSE FirstSeen(rows, k + 1, acc)

\* the review row of the k-th record, which has a null image_url
ReviewRowOf(k) == review_rows[Cardinality({j \in 1..k : merged[j].image_url = None})]

\* C10: the candidate table lists the posts in the order in which their
\* urls first appear among the surviving rows, and the post chosen for a
\* scored record (accepted, or suggested in its review row) has the greatest
\* post score of the table and is the first post of the table with that score.
C10_FirstBestPostChosen ==
  /\ pc \in {"merge", "done"} =>
       [j \in 1..Len(posts) |-> posts[j].post_url] = FirstSeen(meta, 1, <<>>)
  /\ \A k \in 1..Len(locals) :
       (locals[k].branch = "scored" /\ posts # <<>>) =>
         LET l == locals[k]
         IN  /\ Len(l.p_scores) = Len(posts)
             /\ l.best_post \in 1..Len(posts)
             /\ \A j \in 1..Len(posts) : ~RatLT(l.p_scores[l.best_post], l.p_scores[j])
             /\ \A j \in 1..(l.best_post - 1) : RatLT(l.p_scores[j], l.p_scores[l.best_post])
             /\ IF l.outcome = "post_low_confidence"
                  THEN /\ ReviewRowOf(k).post_url_suggested = Some(posts[l.best_post].post_url)
                       /\ ReviewRowOf(k).post_title_suggested = Some(posts[l.best_post].post_title)
                  ELSE /\ merged[k].post_url = Some(posts[l.best_post].post_url)
                       /\ merged[k].post_title = Some(posts[l.best_post].post_title)

C10_Witness ==
  \E k \in 1..Len(locals) :
    /\ locals[k].branch = "scored"
    /\ Len(posts) = 2
    /\ locals[k].p_scores[1] = locals[k].p_scores[2]
    /\ locals[k].best_post = 1
    /\ locals[k].outcome = "matched"
(***************************************************************************)
(* Image selection and the confidence of each outcome                      *)
(***************************************************************************)
\* the images of the post item k chose its image in
ChosenImages(k) == posts[locals[k].best_post].images

\* C11: wherever the images of a chosen post were scored, the selected
\* image has the greatest image score of that post, every image before it
\* in the post's sorted list scores strictly less, no image with the same
\* score sorts before it, and a resolved record carries its url
C11_SelectedImageIsFirstMaximum ==
  \A k \in 1..Len(locals) :
    locals[k].i_scores # <<>> =>
      /\ Len(locals[k].i_scores) = Len(ChosenImages(k))
      /\ locals[k].best_img \in 1..Len(ChosenImages(k))
      /\ locals[k].best_i_score = locals[k].i_scores[locals[k].best_img]
      /\ \A j \in 1..Len(ChosenImages(k)) :
           /\ ~RatLT(locals[k].best_i_score, locals[k].i_scores[j])
           /\ j < locals[k].best_img => RatLT(locals[k].i_scores[j], locals[k].best_i_score)
           /\ locals[k].i_scores[j] = locals[k].best_i_score
                => ~image_key_less(ChosenImages(k)[j], ChosenImages(k)[locals[k].best_img])
      /\ locals[k].outcome \in {"matched", "override_forced"}
           => merged[k].image_url = Some(ChosenImages(k)[locals[k].best_img].url)

\* a record is matched to the first of two different images of one post that
\* share the greatest score, and that image came later in the input
C11_Witness ==
  \E k \in 1..Len(locals) :
    /\ locals[k].outcome = "matched"
    /\ \E j \in 1..Len(locals[k].i_scores) :
         /\ j > locals[k].best_img
         /\ locals[k].i_scores[j] = locals[k].best_i_score
         /\ ChosenImages(k)[j].url # ChosenImages(k)[locals[k].best_img].url
         /\ \E a, c \in 1..Len(meta) :
              /\ a < c
              /\ meta[a].image_url = ChosenImages(k)[j].url
              /\ meta[c].image_url = ChosenImages(k)[locals[k].best_img].url

\* c, a count of ten-thousandths, is x rounded to four decimals: it lies
\* within half a ten-thousandth of x
RoundedTo4(c, x) == 2 * Abs(c * x.d - 10000 * x.n) <= x.d

\* 0.65 * postScore + 0.35 * imageScore of item k
Blend(k) == RatAdd(RatMul(locals[k].best_p_score, Cent(65)), RatMul(locals[k].best_i_score, Cent(35)))

\* item k took the normal flow and both of its best scores reach their thresholds
FullyMatched(k) ==
  /\ locals[k].branch = "scored"
  /\ locals[k].best_post # 0
  /\ ~RatLT(locals[k].best_p_score, Cent(post_threshold))
  /\ locals[k].best_img # 0
  /\ ~RatLT(locals[k].best_i_score, Cent(img_threshold))

\* C12: a record matched without an override, its post score and image
\* score reaching the thresholds, has match_confidence
\* min(1.0, 0.65 * postScore + 0.35 * imageScore), to four decimals: 1.0
\* where the blend reaches 1.0 and the rounded blend below, so never more
\* than 1.0 even where the post score is above 1.0
C12_FullMatchConfidence ==
  \A k \in 1..Len(locals) :
    FullyMatched(k) =>
      /\ locals[k].outcome = "matched"
      /\ merged[k].match_confidence <= 10000
      /\ IF RatLT(Blend(k), Rat(1, 1))
           THEN RoundedTo4(merged[k].match_confidence, Blend(k))
           ELSE merged[k].match_confidence = 10000

\* a full match whose post score is above 1.0 and whose blend is clamped
C12_Witness ==
  \E k \in 1..Len(locals) :
    /\ FullyMatched(k)
    /\ RatLT(Rat(1, 1), locals[k].best_p_score)
    /\ RatLT(Rat(1, 1), Blend(k))
    /\ merged[k].match_confidence = 10000

\* item k took the override branch and its forced post is in the table
OverrideFound(k) == locals[k].branch = "override" /\ locals[k].best_post # 0

\* C13: on the override path with the forced post in the table,
\* match_confidence is 1.0 where an image was chosen, and 0.8 with a review
\* row "override_post_found_but_no_image" where none was; the latter is
\* also what lines 347-368 give for any record and post of the run when no
\* image is selectable
C13_OverrideConfidence ==
  /\ \A k \in 1..Len(locals) :
       OverrideFound(k) =>
         IF locals[k].best_img # 0
           THEN /\ merged[k].match_confidence = 10000
                /\ merged[k].image_url # None
           ELSE /\ merged[k].match_confidence = 8000
                /\ merged[k].image_url = None
                /\ ReviewRowOf(k).id = merged[k].id
                /\ ReviewRowOf(k).reason = "override_post_found_but_no_image"
  /\ \A i \in 1..Len(index) : \A j \in 1..Len(posts) :
       /\ override_result(index[i], posts[j], j, <<>>, Unset).out.match_confidence = 8000
       /\ override_result(index[i], posts[j], j, <<>>, Unset).out.image_url = None
       /\ override_result(index[i], posts[j], j, <<>>, Unset).review # None

\* an override whose post is in the table resolved an image
C13_Witness ==
  \E k \in 1..Len(locals) :
    /\ OverrideFound(k)
    /\ locals[k].best_img # 0
    /\ merged[k].match_confidence = 10000
    /\ merged[k].post_url = Some(overrides[item_key(index[k])].post_url)

\* C14: a record rejected at the image stage carries the url, title,
\* labels, source and description of the accepted post, a null image_url
\* and the accepted post score (to four decimals) as match_confidence, and
\* has a review row "image_low_confidence" that suggests that post
C14_ImageRejectedKeepsPost ==
  \A k \in 1..Len(locals) :
    locals[k].outcome = "image_low_confidence" =>
      /\ locals[k].best_post \in 1..Len(posts)
      /\ ~RatLT(locals[k].best_p_score, Cent(post_threshold))
      /\ merged[k].image_url = None
      /\ merged[k].post_url = Some(posts[locals[k].best_post].post_url)
      /\ merged[k].post_title = Some(posts[locals[k].best_post].post_title)
      /\ merged[k].post_labels = Some(posts[locals[k].best_post].labels)
      /\ merged[k].post_source = Some(posts[locals[k].best_post].source)
      /\ merged[k].post_description = Some(posts[locals[k].best_post].description)
      /\ RoundedTo4(merged[k].match_confidence, locals[k].best_p_score)
      /\ ReviewRowOf(k).id = merged[k].id
      /\ ReviewRowOf(k).reason = "image_low_confidence"
      /\ ReviewRowOf(k).post_url_suggested = Some(posts[locals[k].best_post].post_url)
      /\ ReviewRowOf(k).post_title_suggested = Some(posts[locals[k].best_post].post_title)
      /\ Cardinality({j \in 1..Len(review_rows) : review_rows[j].id = merged[k].id})
           = Cardinality({j \in 1..Len(merged) : merged[j].id = merged[k].id /\ merged[j].image_url = None})

\* a record is rejected at the image stage after another record went to
\* review, so that its review row is not the first
C14_Witness ==
  \E k \in 2..Len(locals) :
    /\ locals[k].outcome = "image_low_confidence"
    /\ merged[k - 1].image_url = None
    /\ merged[k - 1].id # merged[k].id

(***************************************************************************)
(* Post aggregation                                                        *)
(***************************************************************************)
\* the rows of meta that pass the filter at the head of the grouping loop
Surviving == {a \in 1..Len(meta) : row_survives(meta[a])}

\* the post url of row a as the aggregator compares it, and with params,
\* query and fragment stripped as the scraper's normalize_page_url does
GroupKey(a) == normalize(meta[a].post_url)
StrippedKey(a) == normalize_page_url(normalize(meta[a].post_url))

Aggregated == pc \in {"compile", "merge", "done"}

\* C15 as stated: post urls are compared with query and fragment stripped,
\* so there are as many candidate posts as distinct stripped urls among the
\* surviving rows, and two surviving rows whose stripped urls agree have
\* their images in one post
C15_GroupedByStrippedUrl ==
  Aggregated =>
    /\ Len(post_map) = Cardinality({StrippedKey(a) : a \in Surviving})
    /\ \A a, b \in Surviving :
         StrippedKey(a) = StrippedKey(b) =>
           \E j \in 1..Len(post_map) :
             /\ \E i \in 1..Len(post_map[j].images) :
                  post_map[j].images[i].url = meta[a].image_url
             /\ \E i \in 1..Len(post_map[j].images) :
                  post_map[j].images[i].url = meta[b].image_url

\* C15, amended: post urls are compared after whitespace normalization
\* only.  The candidate posts are one per distinct whitespace-normalized
\* url of the surviving rows, each holding one image per surviving row of
\* that url; rows whose urls differ in query or fragment are in different
\* posts; where every url is as normalize_page_url leaves it, that is one
\* post per scheme+host+path.
C15_GroupedByWhitespaceNormalizedUrl ==
  /\ \A i, j \in 1..Len(post_map) : post_map[i].url = post_map[j].url => i = j
  /\ \A j \in 1..Len(post_map) :
       /\ \E a \in Surviving : a < next_row /\ GroupKey(a) = post_map[j].url
       /\ Len(post_map[j].images)
            = Cardinality({a \in Surviving : a < next_row /\ GroupKey(a) = post_map[j].url})
  /\ \A a \in Surviving :
       a < next_row =>
         \E j \in 1..Len(post_map) :
           /\ post_map[j].url = GroupKey(a)
           /\ \E i \in 1..Len(post_map[j].images) :
                post_map[j].images[i].url = meta[a].image_url
  /\ Aggregated =>
       /\ Len(post_map) = Cardinality({GroupKey(a) : a \in Surviving})
       /\ (\A a \in Surviving : StrippedKey(a) = GroupKey(a))
            => Len(post_map) = Cardinality({StrippedKey(a) : a \in Surviving})
  /\ pc \in {"merge", "done"} =>
       /\ Len(posts) = Len(post_map)
       /\ \A j \in 1..Len(posts) : posts[j].post_url = post_map[j].url

\* two surviving rows whose post urls differ only in the query are in two
\* posts, and a third whose url differs from the first in whitespace only
\* is in the post of the first
C15_Witness ==
  /\ pc = "merge"
  /\ Len(posts) = 2
  /\ \E a, b, c \in Surviving :
       /\ GroupKey(a) # GroupKey(b)
       /\ StrippedKey(a) = StrippedKey(b)
       /\ c # a
       /\ meta[c].post_url # meta[a].post_url
       /\ GroupKey(c) = GroupKey(a)
       /\ Len(posts[1].images) + Len(posts[2].images) = 3

\* the surviving rows read so far that belong to the j-th post, and the
\* whitespace-normalized text of field f of row a
GroupRows(j) == {a \in Surviving : a < next_row /\ GroupKey(a) = post_map[j].url}
TextOf(a, f) == normalize(meta[a][f])

\* the text of field f of the earliest row of the j-th group that has one
FirstText(j, f) ==
  IF \E a \in GroupRows(j) : TextOf(a, f) # <<>>
    THEN TextOf(CHOOSE a \in GroupRows(j) :
                  /\ TextOf(a, f) # <<>>
                  /\ \A b \in GroupRows(j) : b < a => TextOf(b, f) = <<>>, f)
    ELSE <<>>

\* the labels of the earliest row of the j-th group that has any
FirstLabels(j) ==
  IF \E a \in GroupRows(j) : meta[a].labels # <<>>
    THEN meta[CHOOSE a \in GroupRows(j) :
                /\ meta[a].labels # <<>>
                /\ \A b \in GroupRows(j) : b < a => meta[b].labels = <<>>].labels
    ELSE <<>>

\* C16: after every row read, each post's title, date, source and
\* description are the (whitespace-normalized) value of the earliest
\* surviving row of its group that has a non-empty one, and its labels are
\* the labels of the earliest row that has any; they are empty where no
\* row has one.  Later rows neither replace nor extend them, and the
\* candidate table carries them (the labels with synonyms folded).
C16_FirstNonEmptyWins ==
  /\ \A j \in 1..Len(post_map) :
       /\ post_map[j].post_title = FirstText(j, "post_title")
       /\ post_map[j].post_date = FirstText(j, "post_date")
       /\ post_map[j].source = FirstText(j, "source")
       /\ post_map[j].description = FirstText(j, "description")
       /\ post_map[j].labels = FirstLabels(j)
  /\ pc \in {"merge", "done"} =>
       \A j \in 1..Len(posts) :
         /\ posts[j].post_title = FirstText(j, "post_title")
         /\ posts[j].post_date = FirstText(j, "post_date")
         /\ posts[j].source = FirstText(j, "source")
         /\ posts[j].description = FirstText(j, "description")
         /\ posts[j].labels = [i \in 1..Len(FirstLabels(j)) |->
                                 apply_synonyms_tokenwise(FirstLabels(j)[i])]

\* a post of three rows: the first has a blank title and no labels, the
\* second gives the title and the labels, and the third has another title
\* and other labels, which are not taken
C16_Witness ==
  /\ pc = "merge"
  /\ \E j \in 1..Len(posts) : \E a, b, c \in GroupRows(j) :
       /\ a < b /\ b < c
       /\ meta[a].post_title # <<>> /\ TextOf(a, "post_title") = <<>>
       /\ meta[a].labels = <<>>
       /\ TextOf(a, "description") # <<>> /\ TextOf(a, "description") # meta[a].description
       /\ posts[j].post_title = TextOf(b, "post_title")
       /\ post_map[j].labels = meta[b].labels
       /\ posts[j].description = TextOf(a, "description")
       /\ TextOf(c, "post_title") \notin {<<>>, posts[j].post_title}
       /\ meta[c].labels \notin {<<>>, post_map[j].labels}

\* image x may stand before image y in a sorted list: by position
\* ascending, an image whose position is 0 (or absent) after every image
\* with a positive position, and by url where the positions agree
InOrder(x, y) ==
  IF x.pos > 0 /\ y.pos > 0
    THEN x.pos < y.pos \/ (x.pos = y.pos /\ ~StrLess(y.url, x.url))
    ELSE IF x.pos > 0 THEN TRUE
    ELSE IF y.pos > 0 THEN FALSE
    ELSE ~StrLess(y.url, x.url)

Sorted(imgs) == \A i, j \in 1..Len(imgs) : i < j => InOrder(imgs[i], imgs[j])

\* C17: from the end of the aggregation on (while the candidate table is
\* compiled, throughout the merge pass and after it) every post's image
\* list is sorted by position ascending with the images of position 0
\* after all those with a positive position, ties broken by url ascending;
\* the candidate table holds these lists, and they hold one image per
\* surviving row of the post.
C17_ImagesSorted ==
  /\ Aggregated =>
       \A j \in 1..Len(post_map) :
         /\ Sorted(post_map[j].images)
         /\ Len(post_map[j].images) = Cardinality(GroupRows(j))
         /\ \A a \in GroupRows(j) : \E i \in 1..Len(post_map[j].images) :
              /\ post_map[j].images[i].url = meta[a].image_url
              /\ post_map[j].images[i].pos = meta[a].position_in_post
  /\ pc \in {"merge", "done"} =>
       \A j \in 1..Len(posts) :
         /\ posts[j].images = post_map[j].images
         /\ Sorted(posts[j].images)

\* during the merge pass a post holds three images: two of one positive
\* position in url order, then one of position 0 whose url is the least;
\* the input listed them in the reverse order
C17_Witness ==
  /\ pc = "merge"
  /\ next_item > 1
  /\ Len(meta) = 3
  /\ \E j \in 1..Len(posts) :
       /\ Len(posts[j].images) = 3
       /\ posts[j].images[1].pos > 0
       /\ posts[j].images[1].pos = posts[j].images[2].pos
       /\ StrLess(posts[j].images[1].url, posts[j].images[2].url)
       /\ posts[j].images[3].pos = 0
       /\ StrLess(posts[j].images[3].url, posts[j].images[1].url)
       /\ meta[1].image_url = posts[j].images[3].url
       /\ meta[2].image_url = posts[j].images[2].url
       /\ meta[3].image_url = posts[j].images[1].url

(***************************************************************************)
(* Noise filtering                                                         *)
(***************************************************************************)
\* the image url of row a is non-empty and is on an allowed host or matches
\* the image-extension pattern
KeptAsStated(a) ==
  /\ meta[a].image_url # <<>>
  /\ \/ urlparse(meta[a].image_url).netloc \in ALLOWED_HOSTS
     \/ IMG_EXT_RE_search(meta[a].image_url)

\* ... and urlparse accepts it
KeptIfParsed(a) == KeptAsStated(a) /\ urlparse(meta[a].image_url).ok

\* the images of the posts, each by post and place
ImageSlots == UNION {{<<j, i>> : i \in 1..Len(post_map[j].images)} : j \in 1..Len(post_map)}

\* the rows read so far that Kept holds of are the rows that contributed:
\* each of them put one image into the post of its url, there is no other
\* image and no post without such a row, and every post-level value comes
\* from such a row
Contributed(Kept(_)) ==
  /\ Cardinality(ImageSlots) = Cardinality({a \in 1..(next_row - 1) : Kept(a)})
  /\ \A a \in 1..(next_row - 1) :
       Kept(a) => \E j \in 1..Len(post_map) :
                    /\ post_map[j].url = GroupKey(a)
                    /\ \E i \in 1..Len(post_map[j].images) :
                         post_map[j].images[i].url = meta[a].image_url
  /\ \A j \in 1..Len(post_map) :
       /\ \E a \in 1..(next_row - 1) : Kept(a) /\ GroupKey(a) = post_map[j].url
       /\ \A f \in {"post_title", "post_date", "source", "description"} :
            post_map[j][f] # <<>> =>
              \E a \in 1..(next_row - 1) :
                Kept(a) /\ GroupKey(a) = post_map[j].url /\ TextOf(a, f) = post_map[j][f]
       /\ post_map[j].labels # <<>> =>
            \E a \in 1..(next_row - 1) :
              Kept(a) /\ GroupKey(a) = post_map[j].url /\ meta[a].labels = post_map[j].labels
  /\ pc \in {"compile", "merge", "done"} => next_row = Len(meta) + 1
  /\ pc \in {"merge", "done"} => Len(posts) = Len(post_map)

\* C18 as stated: a row contributes iff its image url is non-empty and is
\* on an allowed host or matches the image-extension pattern
C18_ContributesIffHostOrExtension == Contributed(KeptAsStated)

\* C18, amended: a row contributes iff its image url is non-empty, is
\* accepted by urlparse, and is on an allowed host or matches the
\* image-extension pattern.  Any other row is passed over: it adds no
\* image and no post-level value, the loop goes on to the next row, and a
\* post with no contributing row is not in the candidate table.
C18_ContributesIffParsedHostOrExtension == Contributed(KeptIfParsed)

\* a row with a .jpg url that urlparse rejects is listed first and passed
\* over, a row of the same post is kept and gives the title, and the post
\* of a third, dropped row is not in the table
C18_Witness ==
  /\ pc = "merge"
  /\ Len(posts) = 1
  /\ \E a, b, c \in 1..Len(meta) :
       /\ a < b
       /\ KeptAsStated(a) /\ ~KeptIfParsed(a)
       /\ KeptIfParsed(b)
       /\ GroupKey(a) = GroupKey(b)
       /\ TextOf(a, "post_title") \notin {<<>>, posts[1].post_title}
       /\ posts[1].post_title = TextOf(b, "post_title")
       /\ ~KeptAsStated(c)
       /\ GroupKey(c) # posts[1].post_url

(***************************************************************************)
(* Synonym folding                                                         *)
(***************************************************************************)
\* C19: apply_synonyms_tokenwise is idempotent: no replacement value of
\* SYNONYMS is a key of it, and folding the result of a folding changes
\* nothing, for every label the candidate table folds (line 232) and for
\* every slug, which slugify folds (line 110)
C19_SynonymsIdempotent ==
  /\ \A k, j \in 1..Len(SYNONYMS) : SYNONYMS[k][2] # SYNONYMS[j][1]
  /\ \A a \in 1..Len(meta) : \A l \in 1..Len(meta[a].labels) :
       apply_synonyms_tokenwise(apply_synonyms_tokenwise(meta[a].labels[l]))
         = apply_synonyms_tokenwise(meta[a].labels[l])
  /\ \A j \in 1..Len(posts) :
       /\ \A l \in 1..Len(posts[j].labels) :
            /\ posts[j].labels[l] = apply_synonyms_tokenwise(post_map[j].labels[l])
            /\ apply_synonyms_tokenwise(posts[j].labels[l]) = posts[j].labels[l]
       /\ apply_synonyms_tokenwise(posts[j].post_slug) = posts[j].post_slug

\* the candidate table holds a label of two words in which a key of
\* SYNONYMS was replaced and a word that is a value of it was kept
C19_Witness ==
  /\ pc = "merge"
  /\ \E j \in 1..Len(posts) : \E l \in 1..Len(posts[j].labels) :
       /\ Len(split(posts[j].labels[l])) = 2
       /\ \E k \in 1..Len(SYNONYMS) :
            /\ split(NonAlnumToSpace(lower(post_map[j].labels[l])))[1] = SYNONYMS[k][1]
            /\ split(posts[j].labels[l])[1] = SYNONYMS[k][2]
       /\ \E k \in 1..Len(SYNONYMS) :
            /\ split(NonAlnumToSpace(lower(post_map[j].labels[l])))[2] = SYNONYMS[k][2]
            /\ split(posts[j].labels[l])[2] = SYNONYMS[k][2]

(***************************************************************************)
(* Record independence                                                     *)
(***************************************************************************)
\* the review row the sequential pass wrote for position k, before the csv
\* writer filled its score columns
SequentialReviewRow(k) ==
  sequential[1].review_rows[Cardinality({j \in 1..k : sequential[1].merged[j].image_url = None})]

OverlapOf(k, i) ==
  overlap_score(Range(filename_tokens_from_path(index[k].file)),
                Range(filename_tokens_from_path(urlparse(ChosenImages(k)[i].url).path)))

\* item k, whose guessed position is 3, chose its image in a post of two
\* images, at positions 3 and 7, with the same original-quality boost
PositionScenario(k) ==
  /\ locals[k].branch = "scored"
  /\ Len(locals[k].i_scores) = 2
  /\ number_from_orig_filename(index[k].orig_filename) = Some(3)
  /\ ChosenImages(k)[1].pos = 3
  /\ ChosenImages(k)[2].pos = 7
  /\ prefer_original(ChosenImages(k)[1].url) = prefer_original(ChosenImages(k)[2].url)

\* C21: in the position scenario the image at position 3 is selected,
\* whatever the filename-token overlaps of the two images are: its score is
\* strictly the greater, and a matched record carries its url
C21_PositionMatchWins ==
  \A k \in 1..Len(locals) :
    PositionScenario(k) =>
      /\ locals[k].best_img = 1
      /\ RatLT(locals[k].i_scores[2], locals[k].i_scores[1])
      /\ locals[k].outcome = "matched" => merged[k].image_url = Some(ChosenImages(k)[1].url)
      /\ locals[k].outcome # "matched" => locals[k].outcome = "image_low_confidence"

\* the scenario with the greatest overlap (0.36) for the image at position 7
\* and none for the image at position 3, which is selected and matched
C21_Witness ==
  \E k \in 1..Len(locals) :
    /\ PositionScenario(k)
    /\ OverlapOf(k, 1) = Cent(0)
    /\ OverlapOf(k, 2) = Cent(36)
    /\ locals[k].outcome = "matched"
    /\ merged[k].image_url = Some(ChosenImages(k)[1].url)

(***************************************************************************)
(* Part-number bonus                                                       *)
(***************************************************************************)
\* the part number of the folder and title of item k
IndexPart(k) == extract_part_number(index[k].folder \o <<" ">> \o index[k].title)

\* the score of post j for item k when the part bonus is pbonus and the
\* other five terms are those of post_score
ScoreWithBonus(k, j, pbonus) ==
  blend(post_score(index[k], posts[j]).dbg.jac, post_score(index[k], posts[j]).dbg.fuz,
        post_score(index[k], posts[j]).dbg.dy, post_score(index[k], posts[j]).dbg.dboost,
        post_score(index[k], posts[j]).dbg.lob, pbonus).score

\* C22: the score the merge loop gives post j for item k holds a part bonus
\* of 0.10 when the part number of the item and the part number of the post
\* are both non-null and equal, whatever the number, and of 0 otherwise
C22_BonusForEqualParts ==
  \A k \in 1..Len(locals) :
    locals[k].branch = "scored" =>
      \A j \in 1..Len(locals[k].p_scores) :
        locals[k].p_scores[j] =
          ScoreWithBonus(k, j, IF IndexPart(k) # None /\ posts[j].post_part # None
                                   /\ IndexPart(k) = posts[j].post_part
                                 THEN Cent(10) ELSE Cent(0))

\* the same with the test of line 275, which takes a part number 0 for no
\* part number
PartBonusForEqualNonZeroParts ==
  \A k \in 1..Len(locals) :
    locals[k].branch = "scored" =>
      \A j \in 1..Len(locals[k].p_scores) :
        locals[k].p_scores[j] =
          ScoreWithBonus(k, j, IF TruthyInt(IndexPart(k)) /\ TruthyInt(posts[j].post_part)
                                   /\ IndexPart(k) = posts[j].post_part
                                 THEN Cent(10) ELSE Cent(0))

\* a record and a post that both carry part 0, scored without the bonus
PartZeroOnBothSides ==
  \E k \in 1..Len(locals) :
    /\ locals[k].branch = "scored"
    /\ \E j \in 1..Len(locals[k].p_scores) :
         /\ IndexPart(k) = Some(0)
         /\ posts[j].post_part = Some(0)
         /\ locals[k].p_scores[j] = ScoreWithBonus(k, j, Cent(0))

\* a record and a post that carry the same part, one in roman and one in
\* Arabic numerals, scored with the bonus
PartRomanEqualsArabic ==
  \E k \in 1..Len(locals) :
    /\ locals[k].branch = "scored"
    /\ \E j \in 1..Len(locals[k].p_scores) :
         /\ IndexPart(k) = Some(2)
         /\ posts[j].post_part = Some(2)
         /\ index[k].title # posts[j].post_title
         /\ locals[k].p_scores[j] = ScoreWithBonus(k, j, Cent(10))

(***************************************************************************)
(* A found override always resolves an image                               *)
(***************************************************************************)
\* the records of the run that have a review row
Reviewed == {k \in 1..Len(locals) : locals[k].outcome \notin {"matched", "override_forced"}}

\* C23: every post of the candidate table has at least one image and every
\* image score is at least 0, so an override whose post is found resolves an
\* image whatever the image threshold: no record ends as "override post
\* found but no image", and every override with a found post has a non-null
\* image_url of that post, confidence 1.0 and no review row
C23_FoundOverrideResolvesImage ==
  /\ \A j \in 1..Len(post_map) : Len(post_map[j].images) >= 1
  /\ \A j \in 1..Len(posts) : Len(posts[j].images) >= 1
  /\ \A k \in 1..Len(locals) :
       /\ \A i \in 1..Len(locals[k].i_scores) : ~RatLT(locals[k].i_scores[i], Cent(0))
       /\ locals[k].outcome # "override_post_found_but_no_image"
       /\ OverrideFound(k) =>
            /\ locals[k].best_img \in 1..Len(ChosenImages(k))
            /\ Len(locals[k].i_scores) = Len(ChosenImages(k))
            /\ merged[k].image_url = Some(ChosenImages(k)[locals[k].best_img].url)
            /\ merged[k].match_confidence = 10000
            /\ locals[k].outcome = "override_forced"
  /\ \A r \in 1..Len(review_rows) : review_rows[r].reason # "override_post_found_but_no_image"
  /\ Len(review_rows) = Cardinality(Reviewed)

\* an override whose post is found resolved an image that scores 0, below
\* the image threshold of the run
C23_Witness ==
  \E k \in 1..Len(locals) :
    /\ OverrideFound(k)
    /\ locals[k].best_i_score = Cent(0)
    /\ RatLT(locals[k].best_i_score, Cent(img_threshold))
    /\ merged[k].image_url # None
    /\ merged[k].match_confidence = 10000
====
